---------------------------- MODULE Spec2Model ----------------------------
(***************************************************************************)
(* Verification model of the DSS-43 K-band observation controller          *)
(* (apps/server/dss43k2_server.py and apps/server/workers/__init__.py).    *)
(*                                                                         *)
(* The module holds several specifications over disjoint groups of         *)
(* variables:                                                              *)
(*   SpecNod / FairSpecNod : one record_data run: the record_data call,    *)
(*                           the TwoBeamNodWorker thread it starts, and    *)
(*                           an optional interrupt_recording call.         *)
(*   SpecPoller  : one telemetry poller thread of either worker class.     *)
(*   SpecProc    : remote calls of the long-running procedure entry points *)
(*                 and the running flags they set and clear.               *)
(*   SpecBs      : calc_bs_points applied to its arguments.                *)
(*   SpecMinical : one run of minical_new against the front-end hardware.  *)
(***************************************************************************)
EXTENDS Integers, Sequences, FiniteSets, TLC

(* ----------------------------- bounds --------------------------------- *)
\* largest n_cycles argument of record_data that is explored
MaxCycles == 3
\* largest time_per_scan that is explored, counted in 10 ms polls of the dwell loop
MaxTicks == 2
\* number of remote calls of procedure entry points that is explored
MaxCalls == 2
\* largest n_points argument of calc_bs_points that is explored
MaxPoints == 17
\* largest beamwidth (fwhm) that is explored
MaxFwhm == 4
\* largest power-meter reading handed to process_minical_calib and get_tsys
MaxReading == 2
\* number of invocations of process_minical_calib that is explored
MaxInvocations == 2
\* largest mean, sigma and sample count handed to welchs_t_test
MaxMean == 1
MaxSigma == 2
MaxSamples == 3
\* largest number of boresight iterations asked for
MaxIterations == 2
\* largest number of failing curve fits in one boresight call that is explored
MaxFitErrors == 2
\* most elevation samples the tipping loop records before the antenna is within
\* tolerance of its target
MaxPolls == 3

(* ------------------------- record_data run ----------------------------- *)
VARIABLES
    n_cycles,            \* TwoBeamNodWorker.n_cycles (argument of record_data)
    time_per_scan,       \* TwoBeamNodWorker.time_per_scan, in 10 ms polls
    pc,                  \* program counter of the three threads "rd", "seq", "ir"
    n,                   \* loop variable of `for n in xrange(self.n_cycles)`
    i,                   \* loop variable of `for i in xrange(2)`
    tick,                \* polls slept in the current dwell (time.time() - t_init)
    n_scan,              \* TwoBeamNodWorker.n_scan
    completed_cycles,    \* TwoBeamNodWorker.completed_cycles
    stopFlag,            \* PausableThread._stop  (stopped())
    running,             \* PausableThread._running (running())
    twobeamworker,       \* DSS43K2Server.twobeamworker is not None
    scans,               \* the 'scan' values of every status update delivered, in order
    feed_statuses,       \* the 'feed_status' values of those status updates, in order
    feedCmd,             \* index of the last apc.feed_change command, -1 before the first
    lock,                \* holder of DSS43K2Server.lock, "free" when not held
    df,                  \* DSS43K2Server.df: "none" or "open"
    publishing_started,  \* the spectrometer's publishing_started
    daRunning,           \* _data_acquisition_info['running']
    cbCount,             \* number of record_data.cb() terminal callbacks delivered
    stop_requests,       \* number of times stop_publishing was asked of the spectrometer
    sn_reports,          \* what each finished stop_nodding call reported
    pointFails,          \* history: cycles whose point_onsource returned a false value
    finalDwellDone,      \* history: the dwell on feed 2 of the last cycle has elapsed
    stopEarly            \* history: stop() came while running, before the final dwell elapsed

nodVars == <<n_cycles, time_per_scan, pc, n, i, tick, n_scan, completed_cycles,
             stopFlag, running, twobeamworker, scans, feed_statuses, feedCmd, lock, df,
             publishing_started, daRunning, cbCount, stop_requests, sn_reports,
             pointFails, finalDwellDone, stopEarly>>

seqLocals == <<n, i, tick, n_scan, completed_cycles>>
snVars    == <<stop_requests, sn_reports>>
srvVars   == <<df, publishing_started, daRunning, cbCount, snVars>>
histVars  == <<pointFails, finalDwellDone, stopEarly>>

(* --------------------------- telemetry poller --------------------------- *)
VARIABLES
    worker,                    \* which poller class runs: PowerMeterWorker, APCWorker, RMSWorker
    wPc,                       \* position of the poller thread in iterativeRun / run
    reading,                   \* the record built from the remote query of this iteration
    info,                      \* parent.tsys_info / parent.apc_info: the last-known-state slot
    delivered,                 \* the record last handed to the original update callback
    pLock,                     \* parent.lock is held by the poller
    connection_closed_errors,  \* self.connection_closed_errors
    communication_errors,      \* self.communication_errors
    cb_silenced,               \* self.cb_updates has been replaced by the no-op lambda
    stopReq,                   \* PausableThread._stop of the poller
    paused,                    \* PausableThread._pause of the poller
    invoked,                   \* history: this iteration called the original callback
    consecComm,                \* history: consecutive iterations failed with CommunicationError
    hitMax                     \* history: consecComm has reached max_communication_errors

pollVars == <<worker, wPc, reading, info, delivered, pLock, connection_closed_errors,
              communication_errors, cb_silenced, stopReq, paused, invoked,
              consecComm, hitMax>>

(* ------------------- long-running procedure entry points ---------------- *)
VARIABLES
    flag,        \* the 'running' entries of _data_acquisition_info, _boresight_info,
                 \* _tipping_info and _minical_info
    proc,        \* per remote call: the entry point it invoked, "none" before the call
    cpc          \* per remote call: "idle", "running" (inside the procedure) or "done"

procVars == <<flag, proc, cpc>>

(* --------------------------- calc_bs_points ----------------------------- *)
VARIABLES
    n_points,    \* argument n_points
    fwhm,        \* argument fwhm (or apc.k_band_fwhm()), a positive number of millidegrees
    bs_points    \* outcome "pending" before the call, then what the call produced

bsVars == <<n_points, fwhm, bs_points>>

(* ----------------------------- minical_new ------------------------------ *)
VARIABLES
    mPc,          \* position inside minical_new
    bias,         \* preamp bias of receivers 1 and 2 (set_preamp_bias)
    feed_state,   \* feed state of receivers 1 and 2: "sky" or "load" (set_feed_state)
    noise_diode,  \* noise diode state (set_noise_diode_state)
    calib,        \* per reading taken: the hardware state when _hppm.get_readings ran
    order         \* the keys of calib in the order the readings were taken

minVars == <<mPc, bias, feed_state, noise_diode, calib, order>>

(* ------------- process_minical_calib and the tsys factors --------------- *)
VARIABLES
    cal_data,     \* the calib record handed to process_minical_calib
    cal_given,    \* history: cal_data as it was when minical_new collected it
    cal_results,  \* what each invocation of process_minical_calib returned, in order
    minical_cb,   \* what minical_new.cb received: <<results>>, empty before
    tsysfactor,   \* WBDCFrontEndServer.tsysfactor1..4
    pm_readings,  \* readings of the last read_pms inside get_tsys
    tsys          \* 'tsys' of the last get_tsys, <<>> before the first

calVars == <<cal_data, cal_given, cal_results, minical_cb, tsysfactor, pm_readings, tsys>>

(* --------------------------- welchs_t_test ------------------------------ *)
VARIABLES
    w_args,      \* the arguments mean1, mean2, sigma1, sigma2, n1, n2
    w_result     \* outcome "pending" before the call, then what the call produced

welchVars == <<w_args, w_result>>

(* ------------------------------- tipping -------------------------------- *)
VARIABLES
    tip_running,       \* _tipping_info['running']
    tpc,               \* position of the tipping thread
    el_index,          \* index into TippingElevations of the loop variable el
    tipping_record_el, \* number of samples recorded for the current elevation
    tipping_results,   \* per finished elevation, the number of samples in results
    tipping_cb,        \* the statuses delivered through self.tipping.cb
    tipping_updates,   \* the last status sent through self.tipping.cb_updates
    pm_worker_paused,  \* whether pm_recording_worker is paused
    stopped_in_loop    \* the tolerance-polling loop found the flag False

tipVars == <<tip_running, tpc, el_index, tipping_record_el, tipping_results, tipping_cb,
             tipping_updates, pm_worker_paused, stopped_in_loop>>

(* ------------------------------ boresight ------------------------------- *)
VARIABLES
    b_args,            \* iterations, n_points and the beam width of one boresight call
    b_running,         \* _boresight_info['running']
    bpc,               \* position of the boresight thread
    b_points,          \* what calc_bs_points returned
    i_iter,            \* loop variable of the iterations loop
    direction,         \* index into Directions of the axis being swept
    item,              \* index into locs of grab_pm_data's loop
    integrated_data,   \* number of rows grab_pm_data has gathered
    avg_tsys,          \* what grab_pm_data returned
    prev_offsets,      \* running offset total per axis and field
    delta_offsets,     \* list of calculated offsets per axis and field
    gauss_results,     \* fit per axis and field of the current iteration
    boresight_cb,      \* the results delivered through self.boresight.cb
    offsets_commanded, \* grab_pm_data's calls of set_offset_one_axis
    fits_done,         \* calls of gauss_fit
    corrections,       \* offset corrections sent to the pointing controller
    apc_corrections,   \* axis and value of each of those set_offset_one_axis calls, in order
    boresight_offset,  \* _boresight_offset_el / _boresight_offset_xel
    curve_fit_raised,  \* per field, whether op.curve_fit raised in the last axis
    curve_fit_errors,  \* history: number of gauss_fit calls in which op.curve_fit raised
    stopped_in_sweep,  \* stop_boresight arrived while grab_pm_data was sweeping
    read_false,        \* grab_pm_data found the flag False
    dir_points,        \* the offsets swept on the current axis (locs of grab_pm_data)
    apc_offset,        \* per axis, the offset the pointing controller was last given
    integrated_at      \* per pm_integrator_all call of the sweep, the offset the axis had

boreVars == <<b_args, b_running, bpc, b_points, i_iter, direction, item, integrated_data,
              avg_tsys, prev_offsets, delta_offsets, gauss_results, boresight_cb,
              offsets_commanded, fits_done, corrections, apc_corrections,
              boresight_offset, curve_fit_raised, curve_fit_errors, stopped_in_sweep,
              read_false, dir_points, apc_offset, integrated_at>>

(* ------------------ WBDC front-end server construction ------------------ *)
VARIABLES
    settings_file,       \* what WBDCFrontEndServer.settings_file names when __init__ is called
    wpc,                 \* position of the constructor: "init", "retrieve", "constructed", "raised"
    file_created,        \* __init__ has created the missing settings file, empty
    tsysfactors,         \* tsysfactor1 .. tsysfactor4
    wbdc_raised,         \* the exception that left __init__, "none" if there was none
    wbdc_logged,         \* the error retrieve_previous_minical_results logged, "none" if none
    retrieve_calls       \* calls of retrieve_previous_minical_results made by __init__

wbdcVars == <<settings_file, wpc, file_created, tsysfactors, wbdc_raised, wbdc_logged,
              retrieve_calls>>

(* ------------------ DSS43K2Server.point_onsource ------------------ *)
VARIABLES
    pointing_running,   \* _pointing_info['running']
    ppc,                \* position of the point_onsource thread
    onsource,           \* the local onsource: the last answer of self.apc.onsource()
    azel,               \* the local azel: the last answer of self.apc.get_azel()
    point_polls,        \* passes through the body of the while loop
    point_updates,      \* calls of self.point_onsource.cb_updates
    point_cb            \* what self.point_onsource.cb was called with, in order

pntVars == <<pointing_running, ppc, onsource, azel, point_polls, point_updates, point_cb>>

(* ------------- convert_to_gbtidlfits: the tsys reassignment ------------- *)
VARIABLES
    center_freq_arg,    \* the argument center_freq, in GHz
    tsys_read,          \* a row of self.df['Tsys'] as read from the file, channels 1..4
    tsys_row,           \* the same row of the array tsys, which the branches assign to
    fits_pc             \* "read" before the reassignment, "rearranged" after it

fitsVars == <<center_freq_arg, tsys_read, tsys_row, fits_pc>>

(* ------------- DSS43K2Server.spectrometer_callback --------------- *)
VARIABLES
    spc,                \* position of the thread serving spectrometer_callback
    cb_calls,           \* spectrometer_callback calls served so far
    rows_written,       \* calls of write_data that wrote their row to an open file
    closed_writes       \* writes of write_data that met a closed file

scVars == <<spc, cb_calls, rows_written, closed_writes>>

(* ------------- DSS43K2Client: generated synchronous methods ------------- *)
VARIABLES
    clpc,               \* position of the thread calling the generated client method
    call_no,            \* calls of the method made so far; call k's result is k
    cb_ready,           \* the local cb_ready of the call in progress
    ready,              \* callback.ready
    data,               \* callback.data, 0 standing for None
    cbpc,               \* the call whose terminal callback is between its two assignments, 0 if none
    pending,            \* calls the server has not yet answered with the terminal callback
    returned            \* per finished call, its number and the data it returned

clVars == <<clpc, call_no, cb_ready, ready, data, cbpc, pending, returned>>

(* ------------- WBDCFrontEndServer.perform_minical --------------- *)
VARIABLES
    pm_pc,              \* "idle", "performed" after perform_minical, "retrieved" after a
                        \* later retrieve_previous_minical_results
    pm_args,            \* the call: simulated mode, save_config, what the hardware answered
    factors_before,     \* tsysfactor1..4 when perform_minical was called
    file_before,        \* the settings file when perform_minical was called
    file_after,         \* the settings file when perform_minical has ended
    pm_return           \* what perform_minical returned or raised

pmVars == <<pm_pc, pm_args, factors_before, file_before, file_after, pm_return>>

(* ------------- DSS43K2Server.minical and its LongRunningWorker ------------- *)
VARIABLES
    minical_running,    \* _minical_info['running']
    mc_path,            \* "worker" when minical has socket_info, "direct" when not, "new" for minical_new
    mc_pc,              \* position of the thread serving minical / minical_new
    mc_worker,          \* position of the LongRunningWorker thread, "none" when there is none
    mc_result,          \* the local results (or the worker's result) not yet delivered
    mc_delivered,       \* what the terminal callback was called with, in order
    mc_calls            \* invocations of minical / minical_new so far

mcVars == <<minical_running, mc_path, mc_pc, mc_worker, mc_result, mc_delivered, mc_calls>>

vars == <<nodVars, pollVars, procVars, bsVars, minVars, calVars, welchVars, boreVars, tipVars, wbdcVars, pntVars, fitsVars, scVars, clVars, pmVars, mcVars>>

\* what no step of the record_data run changes: its arguments and the other components
runArgs == <<n_cycles, time_per_scan, pollVars, procVars, bsVars, minVars, calVars, welchVars, boreVars, tipVars, wbdcVars, pntVars, fitsVars, scVars, clVars, pmVars, mcVars>>
\* what no step of a poller changes
notPoller == <<nodVars, procVars, bsVars, minVars, calVars, welchVars, boreVars, tipVars, wbdcVars, pntVars, fitsVars, scVars, clVars, pmVars, mcVars>>
\* what no step of the procedure entry points changes
notProc == <<nodVars, pollVars, bsVars, minVars, calVars, welchVars, boreVars, tipVars, wbdcVars, pntVars, fitsVars, scVars, clVars, pmVars, mcVars>>
\* what no call of calc_bs_points changes
notBs == <<nodVars, pollVars, procVars, minVars, calVars, welchVars, boreVars, tipVars, wbdcVars, pntVars, fitsVars, scVars, clVars, pmVars, mcVars>>
\* what no step of minical_new changes, apart from the minical running flag
notMinical == <<nodVars, pollVars, proc, cpc, bsVars, calVars, welchVars, boreVars, tipVars, wbdcVars, pntVars, fitsVars, scVars, clVars, pmVars, mcVars>>
\* what neither process_minical_calib nor get_tsys changes
notCal == <<nodVars, pollVars, procVars, bsVars, minVars, welchVars, boreVars, tipVars, wbdcVars, pntVars, fitsVars, scVars, clVars, pmVars, mcVars>>
\* what no call of welchs_t_test changes
notWelch == <<nodVars, pollVars, procVars, bsVars, minVars, calVars, boreVars, tipVars, wbdcVars, pntVars, fitsVars, scVars, clVars, pmVars, mcVars>>
\* what tipping and stop_tipping leave alone
notTip == <<nodVars, pollVars, procVars, bsVars, minVars, calVars, welchVars, boreVars, wbdcVars, pntVars, fitsVars, scVars, clVars, pmVars, mcVars>>
\* what a boresight leaves alone
notBore == <<nodVars, pollVars, procVars, bsVars, minVars, calVars, welchVars, tipVars, wbdcVars, pntVars, fitsVars, scVars, clVars, pmVars, mcVars>>
\* what the construction of the WBDC front-end server leaves alone
notWbdc == <<nodVars, pollVars, procVars, bsVars, minVars, calVars, welchVars, boreVars, tipVars, pntVars, fitsVars, scVars, clVars, pmVars, mcVars>>
\* what point_onsource leaves alone
notPnt == <<nodVars, pollVars, procVars, bsVars, minVars, calVars, welchVars, boreVars, tipVars, wbdcVars, fitsVars, scVars, clVars, pmVars, mcVars>>
\* what the FITS conversion leaves alone
notFits == <<nodVars, pollVars, procVars, bsVars, minVars, calVars, welchVars, boreVars, tipVars, wbdcVars, pntVars, scVars, clVars, pmVars, mcVars>>
\* what spectrometer_callback leaves alone
notSc == <<nodVars, pollVars, procVars, bsVars, minVars, calVars, welchVars, boreVars, tipVars, wbdcVars, pntVars, fitsVars, clVars, pmVars, mcVars>>
\* what the client leaves alone
notCl == <<nodVars, pollVars, procVars, bsVars, minVars, calVars, welchVars, boreVars, tipVars, wbdcVars, pntVars, fitsVars, scVars, pmVars, mcVars>>
\* what perform_minical leaves alone, apart from the tsysfactor attributes
notPm == <<nodVars, pollVars, procVars, bsVars, minVars, calVars, welchVars, boreVars, tipVars, wbdcVars, pntVars, fitsVars, scVars, clVars, mcVars>>
\* what neither the construction nor perform_minical touches
notWbdcPm == <<nodVars, pollVars, procVars, bsVars, minVars, calVars, welchVars, boreVars, tipVars, pntVars, fitsVars, scVars, clVars, mcVars>>
\* what minical and its worker leave alone
notMc == <<nodVars, pollVars, procVars, bsVars, minVars, calVars, welchVars, boreVars, tipVars, wbdcVars, pntVars, fitsVars, scVars, clVars, pmVars>>

Goto(t, l) == pc' = [pc EXCEPT ![t] = l]

\* scan = 2*completed_cycles + i + 1
ScanNumberNoFeed(c, f) == 2 * c + 1
ScanNumber(c, f) == 2 * c + f + 1

\* 'feed_status': i+1 in the status update of a dwell on feed index i
FeedStatusIndex(f) == f
FeedStatus(f) == f + 1

\* the dwell loop's poll of the stop flag after each time.sleep(0.01)
AfterSleepNoPoll(st) == "dwell"
AfterSleep(st) == IF st THEN "cancelled" ELSE "dwell"

InitNod ==
    /\ n_cycles \in 0..MaxCycles
    /\ time_per_scan \in 0..MaxTicks
    /\ pc = [t \in {"rd", "seq", "ir"} |-> "idle"]
    /\ n = 0 /\ i = 0 /\ tick = 0
    /\ n_scan = -1
    /\ completed_cycles = 0
    /\ stopFlag = FALSE
    /\ running = FALSE
    /\ twobeamworker = FALSE
    /\ scans = <<>>
    /\ feed_statuses = <<>>
    /\ feedCmd = -1
    /\ lock = "free"
    /\ df = "none"
    /\ publishing_started = FALSE
    /\ daRunning = FALSE
    /\ cbCount = 0
    /\ stop_requests = 0
    /\ sn_reports = <<>>
    /\ pointFails = 0
    /\ finalDwellDone = FALSE
    /\ stopEarly = FALSE

(* ---- DSS43K2Server.record_data ---- *)

\* sets the running flag, builds the TwoBeamNodWorker and starts its thread
RdStartWorker ==
    /\ pc["rd"] = "idle"
    /\ daRunning' = TRUE
    /\ twobeamworker' = TRUE
    /\ pc' = [pc EXCEPT !["rd"] = "create_df", !["seq"] = "start"]
    /\ UNCHANGED <<runArgs, seqLocals, stopFlag, running, scans, feed_statuses,
                   feedCmd, lock, df, publishing_started, cbCount, snVars, histVars>>

\* self.df = self.create_datafile(...)
RdCreateDatafile ==
    /\ pc["rd"] = "create_df"
    /\ df' = "open"
    /\ Goto("rd", "start_pub")
    /\ UNCHANGED <<runArgs, seqLocals, stopFlag, running,
                   twobeamworker, scans, feed_statuses, feedCmd, lock, publishing_started,
                   daRunning, cbCount, snVars, histVars>>

\* self.spec.start_publishing(...)
RdStartPublishing ==
    /\ pc["rd"] = "start_pub"
    /\ publishing_started' = TRUE
    /\ Goto("rd", "returned")
    /\ UNCHANGED <<runArgs, seqLocals, stopFlag, running,
                   twobeamworker, scans, feed_statuses, feedCmd, lock, df, daRunning, cbCount,
                   snVars, histVars>>

(* ---- TwoBeamNodWorker.run ---- *)

\* self._running.set()
SeqStart ==
    /\ pc["seq"] = "start"
    /\ running' = TRUE
    /\ n' = 0
    /\ Goto("seq", "for_n")
    /\ UNCHANGED <<runArgs, i, tick, n_scan, completed_cycles,
                   stopFlag, twobeamworker, scans, feed_statuses, feedCmd, lock, srvVars, histVars>>

\* head of the cycle loop: the stop check, then n_scan = -1
SeqForN ==
    /\ pc["seq"] = "for_n"
    /\ IF n < n_cycles
       THEN IF stopFlag
            THEN /\ running' = FALSE
                 /\ Goto("seq", "cancelled")
                 /\ UNCHANGED n_scan
            ELSE /\ n_scan' = -1
                 /\ Goto("seq", "point")
                 /\ UNCHANGED running
       ELSE /\ Goto("seq", "restore")
            /\ UNCHANGED <<running, n_scan>>
    /\ UNCHANGED <<runArgs, n, i, tick, completed_cycles, stopFlag,
                   twobeamworker, scans, feed_statuses, feedCmd, lock, srvVars, histVars>>

\* a sequencer that would call point_onsource again after a false response
SeqPointRetry ==
    /\ pc["seq"] = "point"
    /\ \E response \in BOOLEAN :
         IF response
         THEN /\ i' = 0
              /\ Goto("seq", "for_i")
              /\ UNCHANGED <<n_scan, pointFails>>
         ELSE /\ n_scan' = -1
              /\ pointFails' = pointFails + 1
              /\ Goto("seq", "point")
              /\ UNCHANGED i
    /\ UNCHANGED <<runArgs, n, tick, completed_cycles, stopFlag,
                   running, twobeamworker, scans, feed_statuses, feedCmd, lock, srvVars,
                   finalDwellDone, stopEarly>>

\* response = self.apc_client.point_onsource(...); a false response skips the cycle
SeqPoint ==
    /\ pc["seq"] = "point"
    /\ \E response \in BOOLEAN :
         IF response
         THEN /\ i' = 0
              /\ Goto("seq", "for_i")
              /\ UNCHANGED <<n_scan, pointFails>>
         ELSE /\ n_scan' = -1
              /\ pointFails' = pointFails + 1
              /\ Goto("seq", "save")
              /\ UNCHANGED i
    /\ UNCHANGED <<runArgs, n, tick, completed_cycles, stopFlag,
                   running, twobeamworker, scans, feed_statuses, feedCmd, lock, srvVars,
                   finalDwellDone, stopEarly>>

\* head of the feed loop: the stop check; after both feeds, completed_cycles += 1
SeqForI ==
    /\ pc["seq"] = "for_i"
    /\ IF i < 2
       THEN IF stopFlag
            THEN /\ running' = FALSE
                 /\ Goto("seq", "cancelled")
                 /\ UNCHANGED completed_cycles
            ELSE /\ Goto("seq", "chg_emit")
                 /\ UNCHANGED <<running, completed_cycles>>
       ELSE /\ completed_cycles' = completed_cycles + 1
            /\ Goto("seq", "save")
            /\ UNCHANGED running
    /\ UNCHANGED <<runArgs, n, i, tick, n_scan, stopFlag,
                   twobeamworker, scans, feed_statuses, feedCmd, lock, srvVars, histVars>>

\* n_scan = -1; cb_updates('Observing, changing feed', scan -1)
SeqChangingFeed ==
    /\ pc["seq"] = "chg_emit"
    /\ n_scan' = -1
    /\ scans' = Append(scans, -1)
    /\ feed_statuses' = Append(feed_statuses, 0)
    /\ Goto("seq", "feed")
    /\ UNCHANGED <<runArgs, n, i, tick, completed_cycles, stopFlag,
                   running, twobeamworker, feedCmd, lock, srvVars, histVars>>

\* self.apc_client.feed_change(i, eloffset, xeloffset)
SeqFeedChange ==
    /\ pc["seq"] = "feed"
    /\ feedCmd' = i
    /\ Goto("seq", "on_emit")
    /\ UNCHANGED <<runArgs, seqLocals, stopFlag, running,
                   twobeamworker, scans, feed_statuses, lock, srvVars, histVars>>

\* n_scan = 2*completed_cycles + i + 1; cb_updates('Observing, on feed i+1'); t_init = now
SeqOnFeed ==
    /\ pc["seq"] = "on_emit"
    /\ n_scan' = ScanNumber(completed_cycles, i)
    /\ scans' = Append(scans, n_scan')
    /\ feed_statuses' = Append(feed_statuses, FeedStatus(i))
    /\ tick' = 0
    /\ Goto("seq", "dwell")
    /\ UNCHANGED <<runArgs, n, i, completed_cycles, stopFlag,
                   running, twobeamworker, feedCmd, lock, srvVars, histVars>>

\* while time.time() - t_init < time_per_scan: time.sleep(0.01)
SeqDwell ==
    /\ pc["seq"] = "dwell"
    /\ IF tick < time_per_scan
       THEN /\ tick' = tick + 1
            /\ Goto("seq", "dwell_check")
            /\ UNCHANGED <<i, finalDwellDone>>
       ELSE /\ i' = i + 1
            /\ finalDwellDone' = (finalDwellDone \/ (n = n_cycles - 1 /\ i = 1))
            /\ Goto("seq", "for_i")
            /\ UNCHANGED tick
    /\ UNCHANGED <<runArgs, n, n_scan, completed_cycles, stopFlag,
                   running, twobeamworker, scans, feed_statuses, feedCmd, lock, srvVars,
                   pointFails, stopEarly>>

\* if self.stopped(): self._running.clear(); return
SeqDwellCheck ==
    /\ pc["seq"] = "dwell_check"
    /\ Goto("seq", AfterSleep(stopFlag))
    /\ running' = (pc'["seq"] # "cancelled")
    /\ UNCHANGED <<runArgs, seqLocals, stopFlag, twobeamworker,
                   scans, feed_statuses, feedCmd, lock, srvVars, histVars>>

\* with self.parent.lock: self.parent.save_fits()
SeqSaveFits ==
    /\ pc["seq"] = "save"
    /\ lock = "free"
    /\ lock' = "seq"
    /\ Goto("seq", "save_rel")
    /\ UNCHANGED <<runArgs, seqLocals, stopFlag, running,
                   twobeamworker, scans, feed_statuses, feedCmd, srvVars, histVars>>

\* leaving the with block: the lock is released and the cycle loop advances
SeqSaveDone ==
    /\ pc["seq"] = "save_rel"
    /\ lock' = "free"
    /\ n' = n + 1
    /\ Goto("seq", "for_n")
    /\ UNCHANGED <<runArgs, i, tick, n_scan, completed_cycles,
                   stopFlag, running, twobeamworker, scans, feed_statuses, feedCmd, srvVars, histVars>>

\* after the last cycle: self.apc_client.feed_change(0, eloffset, xeloffset)
SeqRestoreFeed ==
    /\ pc["seq"] = "restore"
    /\ feedCmd' = 0
    /\ Goto("seq", "clear")
    /\ UNCHANGED <<runArgs, seqLocals, stopFlag, running,
                   twobeamworker, scans, feed_statuses, lock, srvVars, histVars>>

\* self._running.clear()
SeqClearRunning ==
    /\ pc["seq"] = "clear"
    /\ running' = FALSE
    /\ Goto("seq", "lock_stop")
    /\ UNCHANGED <<runArgs, seqLocals, stopFlag, twobeamworker,
                   scans, feed_statuses, feedCmd, lock, srvVars, histVars>>

\* with self.parent.lock: self.parent.stop_nodding()
SeqLockStopNodding ==
    /\ pc["seq"] = "lock_stop"
    /\ lock = "free"
    /\ lock' = "seq"
    /\ Goto("seq", "sn_stop")
    /\ UNCHANGED <<runArgs, seqLocals, stopFlag, running,
                   twobeamworker, scans, feed_statuses, feedCmd, srvVars, histVars>>

\* stop_nodding has returned or raised: the with block releases the lock
SeqFinish ==
    /\ pc["seq"] = "sn_ret"
    /\ lock' = "free"
    /\ Goto("seq", "done")
    /\ UNCHANGED <<runArgs, seqLocals, stopFlag, running,
                   twobeamworker, scans, feed_statuses, feedCmd, srvVars, histVars>>

(* ---- DSS43K2Server.stop_nodding, run by thread t ---- *)

\* self._spec.pause_publishing(); self._spec.stop_publishing(): the spectrometer
\* may fail to stop (the "known bug" of the error branch)
SnStopPublishing(t) ==
    /\ pc[t] = "sn_stop"
    /\ \E stoppedOk \in BOOLEAN :
         publishing_started' = (publishing_started /\ ~stoppedOk)
    /\ stop_requests' = stop_requests + 1
    /\ Goto(t, "sn_close")
    /\ UNCHANGED <<runArgs, seqLocals, stopFlag, running,
                   twobeamworker, scans, feed_statuses, feedCmd, lock, df, daRunning, cbCount,
                   sn_reports, histVars>>

\* if self.df: self.df.close();  self.df = None
SnCloseDatafile(t) ==
    /\ pc[t] = "sn_close"
    /\ df' = "none"
    /\ Goto(t, "sn_report")
    /\ UNCHANGED <<runArgs, seqLocals, stopFlag, running,
                   twobeamworker, scans, feed_statuses, feedCmd, lock, publishing_started,
                   daRunning, cbCount, snVars, histVars>>

\* lines 1748-1765: the status update and the way stop_nodding ends, by whether
\* self._spec.publishing_started is still set
StopNoddingReportFinished(still_publishing) ==
    [status |-> "Datafile closed, observing finished.", scan |-> -1, raised |-> "none"]
StopNoddingReport(still_publishing) ==
    IF still_publishing
    THEN [status |-> "Was not able to stop publishing. Did not stop nodding routine properly",
          scan |-> -1, raised |-> "RuntimeError"]
    ELSE [status |-> "Datafile closed, observing finished.", scan |-> -1, raised |-> "none"]

\* both branches: cb_updates(scan -1), record_data.cb(), running flag False
\* (the error branch then raises)
SnReport(t) ==
    /\ pc[t] = "sn_report"
    /\ sn_reports' = Append(sn_reports, StopNoddingReport(publishing_started))
    /\ scans' = Append(scans, StopNoddingReport(publishing_started).scan)
    /\ feed_statuses' = Append(feed_statuses, 0)
    /\ cbCount' = cbCount + 1
    /\ daRunning' = FALSE
    /\ Goto(t, "sn_ret")
    /\ UNCHANGED <<runArgs, seqLocals, stopFlag, running, twobeamworker, feedCmd,
                   lock, df, publishing_started, stop_requests, histVars>>

StopNodding == \E t \in {"seq", "ir"} :
    SnStopPublishing(t) \/ SnCloseDatafile(t) \/ SnReport(t)

(* ---- DSS43K2Server.interrupt_recording ---- *)

FinalDwellElapsed ==
    \/ finalDwellDone
    \/ pc["seq"] = "dwell" /\ n = n_cycles - 1 /\ i = 1 /\ tick >= time_per_scan

\* self.twobeamworker.stop()
IrStop ==
    /\ pc["ir"] = "idle"
    /\ twobeamworker
    /\ stopFlag' = TRUE
    /\ stopEarly' = (running /\ ~FinalDwellElapsed)
    /\ Goto("ir", "ir_wait")
    /\ UNCHANGED <<runArgs, seqLocals, running, twobeamworker,
                   scans, feed_statuses, feedCmd, lock, srvVars, pointFails, finalDwellDone>>

\* while self.twobeamworker.running(): time.sleep(3)
IrWait ==
    /\ pc["ir"] = "ir_wait"
    /\ ~running
    /\ Goto("ir", "sn_stop")
    /\ UNCHANGED <<runArgs, seqLocals, stopFlag, running,
                   twobeamworker, scans, feed_statuses, feedCmd, lock, srvVars, histVars>>

\* try: self.stop_nodding() except Exception: log
IrFinish ==
    /\ pc["ir"] = "sn_ret"
    /\ Goto("ir", "ir_done")
    /\ UNCHANGED <<runArgs, seqLocals, stopFlag, running,
                   twobeamworker, scans, feed_statuses, feedCmd, lock, srvVars, histVars>>

RecordData == RdStartWorker \/ RdCreateDatafile \/ RdStartPublishing

SeqRun ==
    \/ SeqStart \/ SeqForN \/ SeqPoint \/ SeqForI \/ SeqChangingFeed
    \/ SeqFeedChange \/ SeqOnFeed \/ SeqDwell \/ SeqDwellCheck
    \/ SeqSaveFits \/ SeqSaveDone \/ SeqRestoreFeed \/ SeqClearRunning
    \/ SeqLockStopNodding \/ SeqFinish

InterruptRecording == IrStop \/ IrWait \/ IrFinish

NextNod == RecordData \/ SeqRun \/ InterruptRecording \/ StopNodding


(* ---- PowerMeterWorker / APCWorker / RMSWorker ---- *)

Workers == {"PowerMeterWorker", "APCWorker", "RMSWorker"}
\* distinct values a remote query can return in the model
Readings == {0, 1}
CallbackOutcomes == {"ok", "ConnectionClosedError", "CommunicationError"}

\* self.max_connection_closed_errors = 3
max_connection_closed_errors == 3
\* self.max_communication_errors = 3
max_communication_errors == 3

\* PowerMeterWorker and APCWorker work under `with self.parent.lock`; RMSWorker does not
UsesLock(w) == w \in {"PowerMeterWorker", "APCWorker"}

\* the two `if ... >= max: self.cb_updates = lambda *args, **kwargs: None`
SilencedNever(sil, closed, comm) == sil
SilencedAfter(sil, closed, comm) ==
    \/ sil
    \/ closed >= max_connection_closed_errors
    \/ comm >= max_communication_errors

\* where the thread goes after the threshold checks: on to time.sleep(update_rate)
AfterDegradeQuit(sil) == IF sil THEN "stopped" ELSE "sleep"
AfterDegrade(sil) == "sleep"

InitPoller ==
    /\ worker \in Workers
    /\ wPc = "head"
    /\ reading = 0 /\ info = 0 /\ delivered = 0
    /\ pLock = FALSE
    /\ connection_closed_errors = 0
    /\ communication_errors = 0
    /\ cb_silenced = FALSE
    /\ stopReq = FALSE /\ paused = FALSE
    /\ invoked = FALSE /\ consecComm = 0 /\ hitMax = FALSE

\* iterativeRun: leave the loop when stopped, wait while paused, else run once more
PollerHead ==
    /\ wPc = "head"
    /\ stopReq \/ ~paused
    /\ wPc' = IF stopReq THEN "stopped" ELSE "query"
    /\ UNCHANGED <<notPoller, worker, reading, info, delivered, pLock,
                   connection_closed_errors, communication_errors, cb_silenced,
                   stopReq, paused, invoked, consecComm, hitMax>>

\* the remote query (get_tsys / get_offsets, get_azel, onsource / calc_rms) and timestamp
PollerQuery ==
    /\ wPc = "query"
    /\ reading' \in Readings
    /\ invoked' = FALSE
    /\ wPc' = IF UsesLock(worker) THEN "lock" ELSE "callback"
    /\ UNCHANGED <<notPoller, worker, info, delivered, pLock, connection_closed_errors,
                   communication_errors, cb_silenced, stopReq, paused, consecComm,
                   hitMax>>

\* with self.parent.lock: self.parent.tsys_info = tsys_info (apc_info = apc_info)
PollerStore ==
    /\ wPc = "lock"
    /\ ~pLock
    /\ pLock' = TRUE
    /\ info' = reading
    /\ wPc' = "callback"
    /\ UNCHANGED <<notPoller, worker, reading, delivered, connection_closed_errors,
                   communication_errors, cb_silenced, stopReq, paused, invoked,
                   consecComm, hitMax>>

\* try: self.cb_updates(info) except ConnectionClosedError / CommunicationError: count it;
\* then the with block, if any, is left
PollerCallback ==
    /\ wPc = "callback"
    /\ pLock' = FALSE
    /\ wPc' = "degrade"
    /\ IF cb_silenced
       THEN UNCHANGED <<delivered, connection_closed_errors, communication_errors,
                        invoked, consecComm, hitMax>>
       ELSE \E outcome \in CallbackOutcomes :
              /\ invoked' = TRUE
              /\ delivered' = reading
              /\ connection_closed_errors' =
                    IF outcome = "ConnectionClosedError"
                    THEN connection_closed_errors + 1 ELSE connection_closed_errors
              /\ communication_errors' =
                    IF outcome = "CommunicationError"
                    THEN communication_errors + 1 ELSE communication_errors
              /\ consecComm' = IF outcome = "CommunicationError" THEN consecComm + 1 ELSE 0
              /\ hitMax' = (hitMax \/ consecComm' >= max_communication_errors)
    /\ UNCHANGED <<notPoller, worker, reading, info, cb_silenced, stopReq, paused>>

\* the threshold checks after the callback
PollerDegrade ==
    /\ wPc = "degrade"
    /\ cb_silenced' = SilencedAfter(cb_silenced, connection_closed_errors,
                                    communication_errors)
    /\ wPc' = AfterDegrade(cb_silenced')
    /\ UNCHANGED <<notPoller, worker, reading, info, delivered, pLock,
                   connection_closed_errors, communication_errors, stopReq, paused,
                   invoked, consecComm, hitMax>>

\* time.sleep(self.update_rate), then back to the head of iterativeRun's loop
PollerSleep ==
    /\ wPc = "sleep"
    /\ wPc' = "head"
    /\ UNCHANGED <<notPoller, worker, reading, info, delivered, pLock,
                   connection_closed_errors, communication_errors, cb_silenced,
                   stopReq, paused, invoked, consecComm, hitMax>>

\* stop_pm_publishing / stop_apc_publishing / stop_rms_publishing: worker.stop()
PollerStop ==
    /\ wPc # "stopped"
    /\ ~stopReq
    /\ stopReq' = TRUE
    /\ UNCHANGED <<notPoller, worker, wPc, reading, info, delivered, pLock,
                   connection_closed_errors, communication_errors, cb_silenced,
                   paused, invoked, consecComm, hitMax>>

\* pause_*_publishing and tipping: worker.pause() / worker.unpause()
PollerPause ==
    /\ wPc # "stopped"
    /\ paused' = ~paused
    /\ UNCHANGED <<notPoller, worker, wPc, reading, info, delivered, pLock,
                   connection_closed_errors, communication_errors, cb_silenced,
                   stopReq, invoked, consecComm, hitMax>>

NextPoller ==
    \/ PollerHead \/ PollerQuery \/ PollerStore \/ PollerCallback
    \/ PollerDegrade \/ PollerSleep \/ PollerStop \/ PollerPause

(* ---- entry points of the long-running procedures ---- *)

Calls == 1..MaxCalls
EntryPoints == {"record_data", "boresight", "tipping", "minical", "minical_new"}
Flags == {"data_acquisition", "boresight", "tipping", "minical"}

\* the _<x>_info dictionary whose 'running' entry an entry point sets
FlagOf(e) ==
    CASE e = "record_data" -> "data_acquisition"
      [] e = "boresight"   -> "boresight"
      [] e = "tipping"     -> "tipping"
      [] OTHER             -> "minical"

InitProc ==
    /\ flag = [f \in Flags |-> FALSE]
    /\ proc = [c \in Calls |-> "none"]
    /\ cpc = [c \in Calls |-> "idle"]

\* every entry point sets its flag first thing, without reading any flag:
\* record_data: self._data_acquisition_info = {'running': True, ...}
\* boresight:   with self.lock: self._boresight_info['running'] = True
\* tipping:     self._tipping_info['running'] = True
\* minical, minical_new: self._minical_info['running'] = True
Enter(c, e) ==
    /\ cpc[c] = "idle"
    /\ proc' = [proc EXCEPT ![c] = e]
    /\ cpc' = [cpc EXCEPT ![c] = "running"]
    /\ flag' = [flag EXCEPT ![FlagOf(e)] = TRUE]
    /\ UNCHANGED notProc

\* the procedure ends normally and clears its flag
Leave(c, e) ==
    /\ cpc[c] = "running" /\ proc[c] = e
    /\ cpc' = [cpc EXCEPT ![c] = "done"]
    /\ flag' = [flag EXCEPT ![FlagOf(e)] = FALSE]
    /\ UNCHANGED <<proc, notProc>>

\* the procedure finds its flag False at a check and returns
Cancelled(c, e) ==
    /\ cpc[c] = "running" /\ proc[c] = e
    /\ ~flag[FlagOf(e)]
    /\ cpc' = [cpc EXCEPT ![c] = "done"]
    /\ UNCHANGED <<flag, proc, notProc>>

RecordDataEnter == \E c \in Calls : Enter(c, "record_data")
\* stop_nodding, from the sequencer thread or interrupt_recording
NoddingTornDown == \E c \in Calls : Leave(c, "record_data")
BoresightEnter == \E c \in Calls : Enter(c, "boresight")
BoresightLeave == \E c \in Calls : Leave(c, "boresight")
\* grab_pm_data returned None and the flag is False: cb({}); return
BoresightCancelled == \E c \in Calls : Cancelled(c, "boresight")
TippingEnter == \E c \in Calls : Enter(c, "tipping")
TippingLeave == \E c \in Calls : Leave(c, "tipping")
TippingCancelled == \E c \in Calls : Cancelled(c, "tipping")
MinicalEnter == \E c \in Calls : Enter(c, "minical")
MinicalLeave == \E c \in Calls : Leave(c, "minical")
MinicalNewEnter == \E c \in Calls : Enter(c, "minical_new")
MinicalNewLeave == \E c \in Calls : Leave(c, "minical_new")

\* stop_boresight: with self.lock: self._boresight_info['running'] = False
StopBoresight ==
    /\ flag' = [flag EXCEPT !["boresight"] = FALSE]
    /\ UNCHANGED <<proc, cpc, notProc>>

\* stop_tipping: with self.lock: self._tipping_info['running'] = False
StopTipping ==
    /\ flag' = [flag EXCEPT !["tipping"] = FALSE]
    /\ UNCHANGED <<proc, cpc, notProc>>

NextProc ==
    \/ RecordDataEnter \/ NoddingTornDown
    \/ BoresightEnter \/ BoresightLeave \/ BoresightCancelled
    \/ TippingEnter \/ TippingLeave \/ TippingCancelled
    \/ MinicalEnter \/ MinicalLeave \/ MinicalNewEnter \/ MinicalNewLeave
    \/ StopBoresight \/ StopTipping

\* the procedure type a running call belongs to (minical and minical_new are one type)
Executing(f) == {c \in Calls : cpc[c] = "running" /\ FlagOf(proc[c]) = f}

(* ---- DSS43K2Server.calc_bs_points ---- *)

\* Numbers are exact fractions <<numerator, denominator>> with a positive denominator.
RatEq(a, b) == a[1] * b[2] = b[1] * a[2]
RatSub(a, b) == <<a[1] * b[2] - b[1] * a[2], a[2] * b[2]>>
RatScale(a, k) == <<a[1] * k, a[2]>>

\* np.linspace(-3, 3, m).tolist(): m evenly spaced samples, both ends included
LinspaceNoEndpoint(m) ==
    [k \in 1..m |-> <<-3 * m + 6 * (k - 1), m>>]
Linspace(m) ==
    IF m = 1 THEN << <<-3, 1>> >>
    ELSE [k \in 1..m |-> <<-3 * (m - 1) + 6 * (k - 1), m - 1>>]

\* the guard of calc_bs_points, as written: n_points < 6 and n_points > 15
Rejects(np) == np < 6 /\ np > 15

Pending == [outcome |-> "pending", points |-> <<>>, points_scaled |-> <<>>]

\* calc_bs_points(n_points, fwhm); linspaceRaises tells whether this numpy raises
\* ValueError for a negative sample count (older releases return an empty array)
CalcBsPoints(np, fw, linspaceRaises) ==
    IF Rejects(np) THEN [outcome |-> "None", points |-> <<>>, points_scaled |-> <<>>]
    ELSE IF np - 2 < 0 /\ linspaceRaises
    THEN [outcome |-> "ValueError", points |-> <<>>, points_scaled |-> <<>>]
    ELSE LET interior == IF np - 2 <= 0 THEN <<>> ELSE Linspace(np - 2)
             points == << <<-22, 1>> >> \o interior \o << <<22, 1>> >>
         IN  [outcome |-> "grid",
              points |-> points,
              points_scaled |-> [k \in 1..Len(points) |-> RatScale(points[k], fw)]]

InitBs ==
    /\ n_points \in 0..MaxPoints
    /\ fwhm \in 1..MaxFwhm
    /\ bs_points = Pending

CallCalcBsPoints ==
    /\ bs_points = Pending
    /\ \E linspaceRaises \in BOOLEAN :
         bs_points' = CalcBsPoints(n_points, fwhm, linspaceRaises)
    /\ UNCHANGED <<n_points, fwhm, notBs>>

NextBs == CallCalcBsPoints

(* ---- DSS43K2Server.minical_new ---- *)

ReadingKeys == {"zero", "load", "load+ND", "sky+ND", "sky"}
Hardware == [bias : [1..2 -> BOOLEAN], feed : [1..2 -> {"sky", "load"}], nd : BOOLEAN]

InitMinical ==
    /\ mPc = "idle"
    /\ bias \in [1..2 -> BOOLEAN]
    /\ feed_state \in [1..2 -> {"sky", "load"}]
    /\ noise_diode \in BOOLEAN
    /\ calib = <<>>
    /\ order = <<>>

\* calib[key] = np.array(self._hppm.get_readings(5)), taken in the present hardware state
TakeReading(key, next) ==
    /\ calib' = [k \in DOMAIN calib \cup {key} |->
                    IF k = key THEN [bias |-> bias, feed |-> feed_state, nd |-> noise_diode]
                    ELSE calib[k]]
    /\ order' = Append(order, key)
    /\ mPc' = next
    /\ UNCHANGED <<flag, bias, feed_state, noise_diode, notMinical>>

\* running = True; set_preamp_bias(1, False); set_preamp_bias(2, False); set_mode; read_temp
MnStart ==
    /\ mPc = "idle"
    /\ flag' = [flag EXCEPT !["minical"] = TRUE]
    /\ bias' = [r \in 1..2 |-> FALSE]
    /\ mPc' = "read_zero"
    /\ UNCHANGED <<feed_state, noise_diode, calib, order, notMinical>>

MnReadZero == mPc = "read_zero" /\ TakeReading("zero", "bias_on")

\* set_preamp_bias(1, True); set_preamp_bias(2, True)
MnBiasOn ==
    /\ mPc = "bias_on"
    /\ bias' = [r \in 1..2 |-> TRUE]
    /\ mPc' = "to_load"
    /\ UNCHANGED <<flag, feed_state, noise_diode, calib, order, notMinical>>

\* set_feed_state(1, 'load'); set_feed_state(2, 'load'); set_noise_diode_state(False)
MnToLoad ==
    /\ mPc = "to_load"
    /\ feed_state' = [r \in 1..2 |-> "load"]
    /\ noise_diode' = FALSE
    /\ mPc' = "read_load"
    /\ UNCHANGED <<flag, bias, calib, order, notMinical>>

MnReadLoad == mPc = "read_load" /\ TakeReading("load", "nd_on")

\* set_noise_diode_state(True)
MnNdOn ==
    /\ mPc = "nd_on"
    /\ noise_diode' = TRUE
    /\ mPc' = "read_load_nd"
    /\ UNCHANGED <<flag, bias, feed_state, calib, order, notMinical>>

MnReadLoadNd == mPc = "read_load_nd" /\ TakeReading("load+ND", "to_sky")

\* set_feed_state(1, 'sky'); set_feed_state(2, 'sky')
MnToSky ==
    /\ mPc = "to_sky"
    /\ feed_state' = [r \in 1..2 |-> "sky"]
    /\ mPc' = "read_sky_nd"
    /\ UNCHANGED <<flag, bias, noise_diode, calib, order, notMinical>>

MnReadSkyNd == mPc = "read_sky_nd" /\ TakeReading("sky+ND", "nd_off")

\* msg = "Turning off noise diode"; self._wbdc_fe.set_noise_diode_state(True)
MnNdOff ==
    /\ mPc = "nd_off"
    /\ noise_diode' = TRUE
    /\ mPc' = "read_sky"
    /\ UNCHANGED <<flag, bias, feed_state, calib, order, notMinical>>

MnReadSky == mPc = "read_sky" /\ TakeReading("sky", "process")

\* results = self.process_minical_calib(calib); self.minical_new.cb(results); running = False
MnFinish ==
    /\ mPc = "process"
    /\ flag' = [flag EXCEPT !["minical"] = FALSE]
    /\ mPc' = "done"
    /\ UNCHANGED <<bias, feed_state, noise_diode, calib, order, notMinical>>

NextMinical ==
    \/ MnStart \/ MnReadZero \/ MnBiasOn \/ MnToLoad \/ MnReadLoad \/ MnNdOn
    \/ MnReadLoadNd \/ MnToSky \/ MnReadSkyNd \/ MnNdOff \/ MnReadSky \/ MnFinish

(* ---- floating-point numbers ---- *)

\* A number is a fraction <<numerator, denominator>> in lowest terms with a
\* denominator >= 0.  Denominator 0 holds the IEEE specials numpy produces instead
\* of raising: <<1, 0>> is inf, <<-1, 0>> is -inf and <<0, 0>> is nan.  Rounding and
\* the sign of zero are not modelled.
Abs(x) == IF x < 0 THEN -x ELSE x
Sign(x) == IF x > 0 THEN 1 ELSE IF x < 0 THEN -1 ELSE 0

RECURSIVE GCD(_, _)
GCD(a, b) == IF b = 0 THEN a ELSE GCD(b, a % b)

Num(nn, dd) ==
    IF dd = 0 THEN <<Sign(nn), 0>>
    ELSE LET g == GCD(Abs(nn), Abs(dd))
         IN  <<Sign(dd) * (nn \div g), Abs(dd) \div g>>

\* float(k) of an integer k
Flt(k) == <<k, 1>>
NaN == <<0, 0>>
IsNaN(a) == a = NaN
IsFinite(a) == a[2] # 0

\* a * b
NpMul(a, b) ==
    LET g1 == GCD(Abs(a[1]), b[2])
        g2 == GCD(Abs(b[1]), a[2])
        h1 == IF g1 = 0 THEN 1 ELSE g1
        h2 == IF g2 = 0 THEN 1 ELSE g2
    IN  Num((a[1] \div h1) * (b[1] \div h2), (a[2] \div h2) * (b[2] \div h1))

\* a / b on numpy operands: a zero divisor gives inf, -inf or nan
NpDiv(a, b) ==
    NpMul(a, IF b[1] = 0 THEN Num(b[2], 0) ELSE Num(b[2] * Sign(b[1]), Abs(b[1])))

\* a + b
NpAdd(a, b) ==
    IF IsNaN(a) \/ IsNaN(b) THEN NaN
    ELSE IF ~IsFinite(a) /\ ~IsFinite(b) THEN (IF a = b THEN a ELSE NaN)
    ELSE IF ~IsFinite(a) THEN a
    ELSE IF ~IsFinite(b) THEN b
    ELSE LET g == GCD(a[2], b[2])
             l == (a[2] \div g) * b[2]
         IN  Num(a[1] * (l \div a[2]) + b[1] * (l \div b[2]), l)

NpNeg(a) == <<-a[1], a[2]>>
\* a - b
NpSub(a, b) == NpAdd(a, NpNeg(b))

(* ---- DSS43K2Server.process_minical_calib ---- *)

\* the four power meters: for i in xrange(4)
NChannels == 4
Channels == 1..NChannels

\* defaults of process_minical_calib's keyword arguments
Tlna == 25
Tf == 1
Fghz == 20
TcorrNDcoupling == 0

\* the assignment name = v followed by the statements F(name): v is computed once
Let(v, F(_)) == CHOOSE y \in {F(x) : x \in {v}} : TRUE

\* gain_cal(Tlna, Tf, R1, R2, R3, R4, R5, Tp, Fghz, TP4corr) for one element of the
\* array arguments, with the default Tlna, Tf, Fghz and TcorrNDcoupling
gain_cal(R1, R2, R3, R4, R5, Tp) ==
    Let(NpMul(Num(-24, 1000), Flt(Fghz)), LAMBDA Tc :
    Let(NpAdd(NpAdd(NpAdd(NpAdd(Tp, Flt(Tlna)), Flt(Tf)), Tc), Flt(TcorrNDcoupling)), LAMBDA T4P :
    Let(NpDiv(T4P, NpSub(R4, R1)), LAMBDA B :
    Let(NpMul(B, NpSub(R2, R1)), LAMBDA T2 :
    Let(NpMul(B, NpSub(R3, R1)), LAMBDA T3 :
    Let(NpMul(B, NpSub(R5, R1)), LAMBDA T5 :
    Let(NpAdd(NpSub(NpSub(NpMul(T5, T5), NpMul(T4P, T4P)), NpMul(T3, T3)), NpMul(T2, T2)), LAMBDA M :
    Let(NpAdd(NpSub(NpSub(T5, T4P), T3), T2), LAMBDA N :
    Let(NpSub(NpMul(N, T4P), M), LAMBDA NT4PmM :
    Let(NpDiv(N, NT4PmM), LAMBDA CC :
    Let(NpSub(Flt(1), NpMul(CC, T4P)), LAMBDA BC :
    Let(NpAdd(NpMul(BC, NpSub(T3, T2)), NpMul(CC, NpSub(NpMul(T3, T3), NpMul(T2, T2)))), LAMBDA Tnd :
        [B |-> B, BC |-> BC, CC |-> CC, Tnd |-> Tnd,
         \* history: the divisors of the two divisions of gain_cal
         divisors |-> {NpSub(R4, R1), NT4PmM}]))))))))))))

\* process_minical_calib for element c of its arrays
CalibChannel(cal, c) ==
    Let(cal["zero"][c], LAMBDA R1 :
    Let(cal["sky"][c], LAMBDA R2 :
    Let(cal["sky+ND"][c], LAMBDA R3 :
    Let(cal["load"][c], LAMBDA R4 :
    Let(cal["load+ND"][c], LAMBDA R5 :
    Let(gain_cal(R1, R2, R3, R4, R5, cal["Tload"][c]), LAMBDA gains :
    Let(gains.B, LAMBDA B :
    Let(gains.BC, LAMBDA BC :
    Let(gains.CC, LAMBDA CC :
    Let(NpMul(B, NpSub(R2, R1)), LAMBDA T2 :
    Let(NpMul(B, NpSub(R3, R1)), LAMBDA T3 :
    Let(NpMul(B, NpSub(R4, R1)), LAMBDA T4 :
    Let(NpMul(B, NpSub(R5, R1)), LAMBDA T5 :
    Let(NpAdd(NpMul(BC, T2), NpMul(NpMul(CC, T2), T2)), LAMBDA T2C :
    Let(NpAdd(NpMul(BC, T3), NpMul(NpMul(CC, T3), T3)), LAMBDA T3C :
    Let(NpAdd(NpMul(BC, T4), NpMul(NpMul(CC, T4), T4)), LAMBDA T4C :
    Let(NpAdd(NpMul(BC, T5), NpMul(NpMul(CC, T5), T5)), LAMBDA T5C :
    Let(NpDiv(T2C, T2), LAMBDA FL :
        [gains |-> <<B, BC, CC, gains.Tnd>>,
         linear |-> <<T2, T3, T4, T5>>,
         quadratic |-> <<T2C, T3C, T4C, T5C>>,
         nd_temp |-> gains.Tnd,
         non_linearity |-> NpMul(Flt(100), NpSub(FL, Flt(1))),
         tsys_factor |-> NpDiv(R2, T2C),
         \* history: the divisors of every division evaluated for this element
         divisors |-> gains.divisors \cup {T2, T2C}]))))))))))))))))))

\* the arrays process_minical_calib returns, from their elements
ResultArrays(ch) ==
    [raised |-> "none",
     gains |-> [k \in 1..4 |-> [c \in Channels |-> ch[c].gains[k]]],
     linear |-> [k \in 1..4 |-> [c \in Channels |-> ch[c].linear[k]]],
     quadratic |-> [k \in 1..4 |-> [c \in Channels |-> ch[c].quadratic[k]]],
     nd_temp |-> [c \in Channels |-> ch[c].nd_temp],
     non_linearity |-> [c \in Channels |-> ch[c].non_linearity],
     tsys_factors |-> [c \in Channels |-> ch[c].tsys_factor]]

\* process_minical_calib(cal_data) with the default keyword arguments
process_minical_calib(cal) ==
    Let(<<CalibChannel(cal, 1), CalibChannel(cal, 2),
          CalibChannel(cal, 3), CalibChannel(cal, 4)>>, ResultArrays)

\* whether a division by d raises: every divisor is a numpy array or an element
\* of one (np.float64), for which division by zero warns and gives inf or nan
PyZeroDivision(d) == d = Flt(0)
ZeroDivisionRaised(d) == FALSE

\* a call of process_minical_calib: its return value, or the exception it raised
Invoke(cal) ==
    IF \E c \in Channels : \E d \in CalibChannel(cal, c).divisors : ZeroDivisionRaised(d)
    THEN [raised |-> "ZeroDivisionError"]
    ELSE process_minical_calib(cal)

\* what the tsysfactor attributes of the front end are after minical_new handled
\* the results: neither process_minical_calib nor minical_new assigns them
FactorsAfter(factors, results) == factors

\* what the caller's calib record is after process_minical_calib ran: the function
\* only reads it, through np.array(cal_data[key]) copies
CalDataAfterZeroRemoved(cal) == [cal EXCEPT !["sky"] = [c \in Channels |-> NpSub(cal["sky"][c], cal["zero"][c])]]
CalDataAfter(cal) == cal

\* Readings offered to process_minical_calib: for each profile the offsets of the
\* zero, sky, sky+ND, load and load+ND readings above a common level.  "flat" has
\* all five readings equal; "linear" and "compressed" are a receiver without and
\* with gain compression; "no_load" has the load reading equal to the zero reading.
Offsets(zero, sky, skyND, load, loadND) ==
    [k \in ReadingKeys |->
        CASE k = "zero" -> zero [] k = "sky" -> sky [] k = "sky+ND" -> skyND
          [] k = "load" -> load [] k = "load+ND" -> loadND]

Profiles ==
    [flat       |-> Offsets(0, 0, 0, 0, 0),
     linear     |-> Offsets(0, 1, 2, 3, 4),
     compressed |-> Offsets(0, 2, 3, 4, 5),
     no_load    |-> Offsets(0, 1, 2, 0, 1)]

\* the reading vector with offset off above level: the same in all four channels,
\* or one more in channels 3 and 4 when skewed
ReadingVector(level, off, skewed) ==
    [c \in Channels |-> Flt(level + off + (IF skewed /\ c > 2 /\ off > 0 THEN 1 ELSE 0))]

CalData(profile, level, skewed, Tload) ==
    [k \in ReadingKeys \cup {"Tload"} |->
        IF k = "Tload" THEN Tload ELSE ReadingVector(level, Profiles[profile][k], skewed)]

\* physical temperature of the ambient loads (read_temp), K: 274.48 and 299.48,
\* for which the system temperature on the load, T4P, is 300 K and 325 K
LoadTemperatures == {[c \in Channels |-> Num(27448, 100)], [c \in Channels |-> Num(29948, 100)]}

\* power-meter readings as read_pms returns them
PmReadings == {[c \in Channels |-> Flt(v)] : v \in 1..MaxReading}

InitCal ==
    /\ \E profile \in DOMAIN Profiles, level \in 0..MaxReading, skewed \in BOOLEAN,
          Tload \in LoadTemperatures :
         cal_data = CalData(profile, level, skewed, Tload)
    /\ cal_given = cal_data
    /\ cal_results = <<>>
    /\ minical_cb = <<>>
    /\ tsysfactor = [c \in Channels |-> Flt(1)]
    /\ pm_readings = <<>>
    /\ tsys = <<>>

\* process_minical_calib called on the calib record (it is a remote method too)
ProcessMinicalCalib ==
    /\ Len(cal_results) < MaxInvocations
    /\ cal_results' = Append(cal_results, Invoke(cal_data))
    /\ cal_data' = CalDataAfter(cal_data)
    /\ UNCHANGED <<cal_given, minical_cb, tsysfactor, pm_readings, tsys, notCal>>

\* the end of minical_new: results = self.process_minical_calib(calib);
\* self.minical_new.cb(results); the exception, if any, ends the thread before cb
MinicalNewProcess ==
    /\ minical_cb = <<>>
    /\ Len(cal_results) < MaxInvocations
    /\ LET results == Invoke(cal_data)
       IN  /\ cal_results' = Append(cal_results, results)
           /\ minical_cb' = IF results.raised = "none" THEN <<results>> ELSE minical_cb
           /\ tsysfactor' = IF results.raised = "none" THEN FactorsAfter(tsysfactor, results)
                            ELSE tsysfactor
    /\ cal_data' = CalDataAfter(cal_data)
    /\ UNCHANGED <<cal_given, pm_readings, tsys, notCal>>

\* WBDCFrontEndServer.get_tsys: tsys.append(float(pm_reading) * tsysfactor)
GetTsys ==
    /\ \E r \in PmReadings :
         /\ pm_readings' = r
         /\ tsys' = [c \in Channels |-> NpMul(r[c], tsysfactor[c])]
    /\ UNCHANGED <<cal_data, cal_given, cal_results, minical_cb, tsysfactor, notCal>>

NextCal == ProcessMinicalCalib \/ MinicalNewProcess \/ GetTsys

(* ---- DSS43K2Server.welchs_t_test ---- *)

\* np.sqrt: exact for a fraction of perfect squares, otherwise rounded up to a
\* multiple of 1/SqrtScale (a positive number has a positive root)
SqrtScale == 10

\* the least r in lo..hi with r * r >= x
RECURSIVE CeilSqrt(_, _, _)
CeilSqrt(x, lo, hi) ==
    IF lo = hi THEN lo
    ELSE LET mid == (lo + hi) \div 2
         IN  IF mid * mid >= x THEN CeilSqrt(x, lo, mid) ELSE CeilSqrt(x, mid + 1, hi)

NpSqrt(a) ==
    IF IsNaN(a) \/ a[1] < 0 THEN NaN
    ELSE IF ~IsFinite(a) THEN a
    ELSE LET rn == CeilSqrt(a[1], 0, a[1])
             rd == CeilSqrt(a[2], 0, a[2])
         IN  IF rn * rn = a[1] /\ rd * rd = a[2] THEN Num(rn, rd)
             ELSE LET x == (a[1] * SqrtScale * SqrtScale + a[2] - 1) \div a[2]
                  IN  Num(CeilSqrt(x, 0, x), SqrtScale)

\* An argument is a value together with its type: a Python float (np = FALSE), as
\* in gauss_fit's placeholder popt, or a np.float64 (np = TRUE), as curve_fit
\* returns.  The sample counts are Python ints.
PyFloat(v) == [v |-> v, np |-> FALSE]
NpFloat(v) == [v |-> v, np |-> TRUE]
\* the type of an arithmetic result: np.float64 as soon as one operand is
Mixed(a, b) == a.np \/ b.np
WAdd(a, b) == [v |-> NpAdd(a.v, b.v), np |-> Mixed(a, b)]
WMul(a, b) == [v |-> NpMul(a.v, b.v), np |-> Mixed(a, b)]
WDiv(a, b) == [v |-> NpDiv(a.v, b.v), np |-> Mixed(a, b)]
WSq(a) == WMul(a, a)

\* a / b raises ZeroDivisionError when b is zero and both operands are Python numbers
DivRaises(a, b) == ~a.np /\ ~b.np /\ b.v = Flt(0)

welchs_t_test(mean1, mean2, sigma1, sigma2, n1, n2) ==
    Let(PyFloat(Flt(n1)), LAMBDA N1 :
    Let(PyFloat(Flt(n2)), LAMBDA N2 :
    Let(WSq(sigma1), LAMBDA s1sq :
    Let(WSq(sigma2), LAMBDA s2sq :
    Let(WAdd(WDiv(s1sq, N1), WDiv(s2sq, N2)), LAMBDA variance :
    Let(PyFloat(Flt(n1 * n1 * (n1 - 1))), LAMBDA D1 :
    Let(PyFloat(Flt(n2 * n2 * (n2 - 1))), LAMBDA D2 :
    Let(WAdd(WDiv(WSq(s1sq), D1), WDiv(WSq(s2sq), D2)), LAMBDA denominator :
        IF \/ DivRaises(s1sq, N1) \/ DivRaises(s2sq, N2)
           \/ DivRaises(WSq(s1sq), D1) \/ DivRaises(WSq(s2sq), D2)
           \/ DivRaises(WSq(variance), denominator)
        THEN [raised |-> "ZeroDivisionError", t |-> NaN, mu |-> NaN]
        ELSE [raised |-> "none",
              \* np.sqrt returns a np.float64, so this division never raises
              t |-> NpDiv(NpSub(mean1.v, mean2.v), NpSqrt(variance.v)),
              mu |-> NpDiv(WSq(variance).v, denominator.v)]))))))))

WelchPending == [raised |-> "pending", t |-> NaN, mu |-> NaN]

\* means and sigmas of either floating-point type
Floats(lo, hi) == {PyFloat(Flt(v)) : v \in lo..hi} \cup {NpFloat(Flt(v)) : v \in lo..hi}

InitWelch ==
    /\ w_args \in [mean1 : Floats(0, MaxMean), mean2 : Floats(0, MaxMean),
                   type : {"float", "np.float64"},
                   sigma1 : 0..MaxSigma, sigma2 : 0..MaxSigma,
                   n1 : 1..MaxSamples, n2 : 1..MaxSamples]
    /\ w_result = WelchPending

\* a sigma of the type the call passes
Typed(type, v) == IF type = "float" THEN PyFloat(Flt(v)) ELSE NpFloat(Flt(v))

CallWelchsTTest ==
    /\ w_result = WelchPending
    /\ w_result' = welchs_t_test(w_args.mean1, w_args.mean2,
                                 Typed(w_args.type, w_args.sigma1),
                                 Typed(w_args.type, w_args.sigma2),
                                 w_args.n1, w_args.n2)
    /\ UNCHANGED <<w_args, notWelch>>

NextWelch == CallWelchsTTest

(* ---- DSS43K2Server.tipping, stop_tipping ---- *)

\* for el in [15, 88]
TippingElevations == <<15, 88>>

InitTip ==
    /\ tip_running = FALSE
    /\ tpc = "idle"
    /\ el_index = 1
    /\ tipping_record_el = 0
    /\ tipping_results = <<>>
    /\ tipping_cb = <<>>
    /\ tipping_updates = "none"
    /\ pm_worker_paused \in BOOLEAN
    /\ stopped_in_loop = FALSE

\* lines 1050-1073: the flag is set, the recording worker paused, the antenna
\* taken off source, the file opened
TipEnter ==
    /\ tpc = "idle"
    /\ tip_running' = TRUE
    /\ pm_worker_paused' = TRUE
    /\ tipping_updates' = "Offset in XEL changed to 99 millidegrees. Performing tipping."
    /\ tpc' = "for_el"
    /\ UNCHANGED <<el_index, tipping_record_el, tipping_results, tipping_cb,
                   stopped_in_loop, notTip>>

\* lines 1075-1085, and lines 1113-1119 once both elevations are done
TipForEl ==
    /\ tpc = "for_el"
    /\ IF el_index > Len(TippingElevations)
       THEN /\ tip_running' = FALSE
            /\ pm_worker_paused' = FALSE
            /\ tipping_cb' = Append(tipping_cb, "Tipping Complete")
            /\ tpc' = "returned"
            /\ UNCHANGED <<tipping_record_el, tipping_updates>>
       ELSE IF ~tip_running
       THEN /\ tipping_cb' = Append(tipping_cb, "Tipping cancelled")
            /\ tpc' = "returned"
            /\ UNCHANGED <<tip_running, pm_worker_paused, tipping_record_el, tipping_updates>>
       ELSE /\ tipping_updates' = "Moving to"
            /\ tipping_record_el' = 0
            /\ tpc' = "while"
            /\ UNCHANGED <<tip_running, pm_worker_paused, tipping_cb>>
    /\ UNCHANGED <<el_index, tipping_results, stopped_in_loop, notTip>>

\* lines 1086-1090 and 1104-1111: the loop condition on the last elevation read,
\* the flag test of the loop body, and the recording of a finished elevation
TipWhile ==
    /\ tpc = "while"
    /\ \E within_tolerance \in BOOLEAN :
         IF within_tolerance \/ tipping_record_el >= MaxPolls
         THEN /\ tipping_results' = Append(tipping_results, tipping_record_el)
              /\ el_index' = el_index + 1
              /\ tpc' = "for_el"
              /\ UNCHANGED <<tipping_updates, stopped_in_loop>>
         ELSE IF ~tip_running
         THEN /\ tipping_updates' = "Tipping cancelled"
              /\ stopped_in_loop' = TRUE
              /\ tpc' = "returned"
              /\ UNCHANGED <<tipping_results, el_index>>
         ELSE /\ tpc' = "sample"
              /\ UNCHANGED <<tipping_results, el_index, tipping_updates, stopped_in_loop>>
    /\ UNCHANGED <<tip_running, tipping_record_el, tipping_cb, pm_worker_paused, notTip>>

\* lines 1092-1102: one sample of elevation and tsys is recorded and reported
TipSample ==
    /\ tpc = "sample"
    /\ tipping_record_el' = tipping_record_el + 1
    /\ tipping_updates' = "Current el"
    /\ tpc' = "while"
    /\ UNCHANGED <<tip_running, el_index, tipping_results, tipping_cb, pm_worker_paused,
                   stopped_in_loop, notTip>>

\* lines 1122-1127
stop_tipping ==
    /\ tip_running
    /\ tip_running' = FALSE
    /\ UNCHANGED <<tpc, el_index, tipping_record_el, tipping_results, tipping_cb,
                   tipping_updates, pm_worker_paused, stopped_in_loop, notTip>>

\* the steps of the thread that serves tipping
TippingThread == TipEnter \/ TipForEl \/ TipWhile \/ TipSample

NextTip == TippingThread \/ stop_tipping

(* ---- DSS43K2Server.boresight, grab_pm_data, gauss_fit, stop_boresight ---- *)

Directions == <<"el", "xel">>
Fields == <<"on_pol1", "on_pol2", "on_minus_off">>
FieldSet == {Fields[k] : k \in 1..Len(Fields)}
DirectionSet == {Directions[k] : k \in 1..Len(Directions)}

\* gauss_fit(points, data, direction): popt from curve_fit, or the placeholder of
\* five Python zeros when curve_fit raises; popt is indexed from 1 here
FittedPopt == <<NpFloat(Flt(3)), NpFloat(Flt(1)), NpFloat(Flt(2)), NpFloat(Flt(0)), NpFloat(Flt(1))>>

gauss_fit(raises, k_band_fwhm, axis_type) ==
    LET popt == IF raises THEN [j \in 1..5 |-> PyFloat(Flt(0))] ELSE FittedPopt
    IN  [popt |-> popt,
         BS_offset |-> NpMul(popt[2].v, Flt(k_band_fwhm)),
         axis_type |-> axis_type]

\* an entry gauss_results does not hold yet
NoFit == [popt |-> <<>>, BS_offset |-> NaN, axis_type |-> "absent"]
NoFits == [d \in DirectionSet |-> [f \in FieldSet |-> NoFit]]

\* "iter": i_iter + 1
IterNumberZeroBased(k) == k
IterNumber(k) == k + 1

\* the dict handed to self.boresight.cb at the end of an iteration, and the {} of
\* a cancelled boresight
BoresightResult(k, total, fits, deltas) ==
    [keys |-> {"prog", "fit_results", "iter", "total_iter", "delta_offsets", "fields"},
     fit_results |-> fits, iter |-> IterNumber(k), total_iter |-> total,
     delta_offsets |-> deltas]
EmptyResult ==
    [keys |-> {}, fit_results |-> NoFits, iter |-> 0, total_iter |-> 0,
     delta_offsets |-> [d \in DirectionSet |-> [f \in FieldSet |-> <<>>]]]

None == [none |-> TRUE, rows |-> 0]
\* Python's `not avg_tsys`: None and the empty list are both false
Falsy(a) == a.none \/ a.rows = 0
\* line 798: if not avg_tsys and not self._boresight_info['running']
NeverCancelled(a, flag_value) == FALSE
CancelledSweep(a, flag_value) == Falsy(a) /\ ~flag_value

BoreHalted == {"returned", "raised"}

\* the largest initial offset given to boresight in the model
MaxPrevOffset == 1

\* the arguments of a boresight call; the two initial offsets are drawn so that
\* each axis is started from zero and from nonzero values
BoresightArgs ==
    {a \in [iterations : 0..MaxIterations, n_points : {6}, k_band_fwhm : {2},
            el_previous_offsets : 0..MaxPrevOffset,
            xel_previous_offsets : 0..MaxPrevOffset] :
        a.el_previous_offsets + a.xel_previous_offsets = MaxPrevOffset}

\* lines 754-755: prev_offsets starts at float(el_previous_offsets) and
\* float(xel_previous_offsets) for every field
InitialOffsets(a) ==
    [d \in DirectionSet |->
        [f \in FieldSet |-> Flt(IF d = "el" THEN a.el_previous_offsets
                                ELSE a.xel_previous_offsets)]]

\* prog_offset = offset_calculated + prev_offsets[direction][field]
ProgOffsetReplaces(offset_calculated, prev) == offset_calculated
ProgOffset(offset_calculated, prev) == NpAdd(offset_calculated, prev)

\* line 795: dir_points = [i + prev_offsets[direction]['on_minus_off'] for i in points[1]]
DirPointsField == "on_minus_off"
DirPoints(points_scaled, shift) ==
    [k \in 1..Len(points_scaled) |-> NpAdd(points_scaled[k], shift)]

\* lines 949-952: set_offset_one_axis(axis, item) has returned when
\* pm_integrator_all is called, so the axis is at the commanded offset
OffsetBeforeCommand(before, commanded) == before
OffsetWhileIntegrating(before, commanded) == commanded

\* final_offset = prev_offsets[direction]['on_pol1']
FinalOffsetFromDifference == "on_minus_off"
FinalOffsetField == "on_pol1"

InitBore ==
    /\ b_args \in BoresightArgs
    /\ b_running = FALSE
    /\ bpc = "idle"
    /\ b_points = Pending
    /\ i_iter = 0 /\ direction = 1 /\ item = 1 /\ integrated_data = 0
    /\ avg_tsys = None
    /\ prev_offsets = InitialOffsets(b_args)
    /\ delta_offsets = [d \in DirectionSet |-> [f \in FieldSet |-> <<>>]]
    /\ gauss_results = NoFits
    /\ boresight_cb = <<>>
    /\ offsets_commanded = 0 /\ fits_done = 0 /\ corrections = 0
    /\ apc_corrections = <<>>
    /\ boresight_offset = [d \in DirectionSet |-> Flt(0)]
    /\ curve_fit_raised = [f \in FieldSet |-> FALSE]
    /\ curve_fit_errors = 0
    /\ stopped_in_sweep = FALSE
    /\ read_false = FALSE
    /\ dir_points = <<>> /\ integrated_at = <<>>
    /\ apc_offset = [d \in DirectionSet |-> Flt(0)]

\* lines 734-758: the flag is set, the grid computed, the offsets initialised
BsEnter ==
    /\ bpc = "idle"
    /\ b_running' = TRUE
    /\ b_points' = CalcBsPoints(b_args.n_points, b_args.k_band_fwhm, FALSE)
    /\ bpc' = "for_iter"
    /\ UNCHANGED <<b_args, i_iter, direction, item, integrated_data, avg_tsys,
                   prev_offsets, delta_offsets, gauss_results, boresight_cb,
                   offsets_commanded, fits_done, corrections, apc_corrections,
                   boresight_offset, curve_fit_raised, curve_fit_errors,
                   stopped_in_sweep, read_false, dir_points, apc_offset, integrated_at, notBore>>

\* line 760, and lines 887-888 once the loop is exhausted
BsForIter ==
    /\ bpc = "for_iter"
    /\ IF i_iter < b_args.iterations
       THEN /\ gauss_results' = NoFits
            /\ direction' = 1
            /\ bpc' = "for_direction"
            /\ UNCHANGED b_running
       ELSE /\ b_running' = FALSE
            /\ bpc' = "returned"
            /\ UNCHANGED <<gauss_results, direction>>
    /\ UNCHANGED <<b_args, b_points, i_iter, item, integrated_data, avg_tsys,
                   prev_offsets, delta_offsets, boresight_cb,
                   offsets_commanded, fits_done, corrections, apc_corrections,
                   boresight_offset, curve_fit_raised, curve_fit_errors,
                   stopped_in_sweep, read_false, dir_points, apc_offset, integrated_at, notBore>>

\* lines 794-797 and 942-945: grab_pm_data is entered for the axis
BsForDirection ==
    /\ bpc = "for_direction"
    /\ item' = 1
    /\ integrated_data' = 0
    /\ dir_points' = DirPoints(b_points.points_scaled,
                              prev_offsets[Directions[direction]][DirPointsField])
    /\ integrated_at' = <<>>
    /\ bpc' = "grab_check"
    /\ UNCHANGED <<b_args, b_running, b_points, i_iter, direction, avg_tsys,
                   prev_offsets, delta_offsets, gauss_results, boresight_cb,
                   offsets_commanded, fits_done, corrections, apc_corrections,
                   boresight_offset, curve_fit_raised, curve_fit_errors,
                   stopped_in_sweep, read_false, apc_offset, notBore>>

\* lines 946-947 and 964-966: the loop head and the test of the flag
GrabCheck ==
    /\ bpc = "grab_check"
    /\ IF item > Len(b_points.points_scaled)
       THEN /\ avg_tsys' = [none |-> FALSE, rows |-> integrated_data]
            /\ bpc' = "grabbed"
            /\ UNCHANGED read_false
       ELSE IF b_running
       THEN /\ bpc' = "grab_measure"
            /\ UNCHANGED <<avg_tsys, read_false>>
       ELSE /\ avg_tsys' = None
            /\ read_false' = TRUE
            /\ bpc' = "grabbed"
    /\ UNCHANGED <<b_args, b_running, b_points, i_iter, direction, item, integrated_data,
                   prev_offsets, delta_offsets, gauss_results, boresight_cb,
                   offsets_commanded, fits_done, corrections, apc_corrections,
                   boresight_offset, curve_fit_raised, curve_fit_errors,
                   stopped_in_sweep, dir_points, apc_offset, integrated_at, notBore>>

\* lines 948-962: the offset is commanded and the power meters integrated
GrabMeasure ==
    /\ bpc = "grab_measure"
    /\ offsets_commanded' = offsets_commanded + 1
    /\ integrated_data' = integrated_data + 1
    /\ apc_offset' = [apc_offset EXCEPT ![Directions[direction]] = dir_points[item]]
    /\ integrated_at' = Append(integrated_at,
           OffsetWhileIntegrating(apc_offset[Directions[direction]], dir_points[item]))
    /\ item' = item + 1
    /\ bpc' = "grab_check"
    /\ UNCHANGED <<b_args, b_running, b_points, i_iter, direction, avg_tsys,
                   prev_offsets, delta_offsets, gauss_results, boresight_cb,
                   fits_done, corrections, apc_corrections,
                   boresight_offset, curve_fit_raised, curve_fit_errors,
                   stopped_in_sweep, read_false, dir_points, notBore>>

\* lines 798-809: the cancelled boresight delivers {} and returns; indexing a
\* None that was returned while the flag is True again raises TypeError
BsAfterGrab ==
    /\ bpc = "grabbed"
    /\ IF CancelledSweep(avg_tsys, b_running)
       THEN /\ boresight_cb' = Append(boresight_cb, EmptyResult)
            /\ bpc' = "returned"
       ELSE /\ bpc' = IF avg_tsys.none THEN "raised" ELSE "fit"
            /\ UNCHANGED boresight_cb
    /\ UNCHANGED <<b_args, b_running, b_points, i_iter, direction, item, integrated_data,
                   avg_tsys, prev_offsets, delta_offsets, gauss_results,
                   offsets_commanded, fits_done, corrections, apc_corrections,
                   boresight_offset, curve_fit_raised, curve_fit_errors,
                   stopped_in_sweep, read_false, dir_points, apc_offset, integrated_at, notBore>>

\* lines 815-851: the three fits, the Welch test on the two polarizations and the
\* correction of the axis; an exception of welchs_t_test ends the thread
BsFit ==
    /\ bpc = "fit"
    /\ \E pol1_raises, pol2_raises \in BOOLEAN :
        LET d == Directions[direction]
            fit_on_pol1 == gauss_fit(pol1_raises, b_args.k_band_fwhm, d)
            fit_on_pol2 == gauss_fit(pol2_raises, b_args.k_band_fwhm, d)
            welch == welchs_t_test(fit_on_pol1.popt[2], fit_on_pol2.popt[2],
                                   fit_on_pol1.popt[3], fit_on_pol2.popt[3],
                                   b_args.n_points, b_args.n_points)
            next_pc == IF welch.raised # "none" THEN "raised"
                       ELSE IF direction < Len(Directions) THEN "for_direction"
                       ELSE "deliver"
        IN  \E bpc_next \in {next_pc} : \E diff_raises \in BOOLEAN :
            LET fit == [f \in FieldSet |->
                          IF f = "on_pol1" THEN fit_on_pol1
                          ELSE IF f = "on_pol2" THEN fit_on_pol2
                          ELSE gauss_fit(diff_raises, b_args.k_band_fwhm, d)]
            IN  /\ curve_fit_raised' = [on_pol1 |-> pol1_raises, on_pol2 |-> pol2_raises,
                                        on_minus_off |-> diff_raises]
                /\ curve_fit_errors' = curve_fit_errors
                       + Cardinality({f \in FieldSet : curve_fit_raised'[f]})
                /\ curve_fit_errors' <= MaxFitErrors
                /\ prev_offsets' = [prev_offsets EXCEPT ![d] =
                       [f \in FieldSet |-> ProgOffset(fit[f].BS_offset, prev_offsets[d][f])]]
                /\ gauss_results' = [gauss_results EXCEPT ![d] = fit]
                /\ delta_offsets' = [delta_offsets EXCEPT ![d] =
                       [f \in FieldSet |-> Append(delta_offsets[d][f], fit[f].BS_offset)]]
                /\ fits_done' = fits_done + Len(Fields)
                /\ bpc' = bpc_next
                /\ corrections' = IF bpc_next = "raised" THEN corrections ELSE corrections + 1
                /\ IF bpc_next = "raised"
                   THEN UNCHANGED <<apc_corrections, boresight_offset, apc_offset>>
                   ELSE /\ apc_offset' =
                             [apc_offset EXCEPT ![d] = prev_offsets'[d][FinalOffsetField]]
                        /\ boresight_offset' =
                             [boresight_offset EXCEPT ![d] = prev_offsets'[d][FinalOffsetField]]
                        /\ apc_corrections' = Append(apc_corrections,
                             [axis |-> d, offset |-> prev_offsets'[d][FinalOffsetField]])
                /\ direction' = IF bpc_next = "for_direction" THEN direction + 1 ELSE direction
    /\ UNCHANGED <<b_args, b_running, b_points, i_iter, item, integrated_data, avg_tsys,
                   boresight_cb, offsets_commanded, stopped_in_sweep, read_false, dir_points, integrated_at, notBore>>

\* lines 874-883: the result of the iteration is handed to self.boresight.cb
BsDeliver ==
    /\ bpc = "deliver"
    /\ boresight_cb' = Append(boresight_cb,
           BoresightResult(i_iter, b_args.iterations, gauss_results, delta_offsets))
    /\ i_iter' = i_iter + 1
    /\ bpc' = "for_iter"
    /\ UNCHANGED <<b_args, b_running, b_points, direction, item, integrated_data, avg_tsys,
                   prev_offsets, delta_offsets, gauss_results,
                   offsets_commanded, fits_done, corrections, apc_corrections,
                   boresight_offset, curve_fit_raised, curve_fit_errors,
                   stopped_in_sweep, read_false, dir_points, apc_offset, integrated_at, notBore>>

\* lines 690-694
stop_boresight ==
    /\ b_running
    /\ b_running' = FALSE
    /\ stopped_in_sweep' = (stopped_in_sweep \/ bpc \in {"grab_check", "grab_measure"})
    /\ UNCHANGED <<b_args, bpc, b_points, i_iter, direction, item, integrated_data,
                   avg_tsys, prev_offsets, delta_offsets, gauss_results, boresight_cb,
                   offsets_commanded, fits_done, corrections, apc_corrections,
                   boresight_offset, curve_fit_raised, curve_fit_errors,
                   read_false, dir_points, apc_offset, integrated_at, notBore>>

NextBore ==
    \/ BsEnter \/ BsForIter \/ BsForDirection \/ GrabCheck \/ GrabMeasure
    \/ BsAfterGrab \/ BsFit \/ BsDeliver \/ stop_boresight

(* ---- WBDCFrontEndServer.__init__ and retrieve_previous_minical_results ---- *)

\* the largest tsysfactor value a settings file holds in the model
MaxTsysFactor == 2

\* json.load(f)['minical']['tsysfactors'] of a settings file: a list of up to four values
FactorLists == UNION {[1..k -> 0..MaxTsysFactor] : k \in 0..4}

\* what the settings file path can name when the server is constructed: nothing, a
\* file that cannot be opened for reading, a file that is not JSON (an empty one
\* included), JSON without a 'minical' entry, or JSON with one
SettingsFiles ==
    [kind : {"missing", "unreadable", "not_json", "no_minical"}, factors : {<<>>}]
       \cup [kind : {"minical"}, factors : FactorLists]

\* the file retrieve_previous_minical_results opens: the missing one has been created empty
FileAfterInit(f, created) ==
    IF f.kind = "missing" /\ created THEN [kind |-> "not_json", factors |-> <<>>] ELSE f

\* retrieve_previous_minical_results: the tsysfactor attributes it leaves, the error
\* it logs and the value it returns; no exception leaves it
retrieve_previous_minical_results(f, old) ==
    CASE f.kind \in {"missing", "unreadable"} ->
            [tsysfactors |-> old, returned |-> "None",
             logged |-> "Couldn't find or read settings file."]
      [] f.kind = "not_json" ->
            [tsysfactors |-> old, returned |-> "None",
             logged |-> "Couldn't find minical results in settings file."]
      [] f.kind = "no_minical" ->
            [tsysfactors |-> old, returned |-> "None",
             logged |-> "Couldn't get previous minical results"]
      [] OTHER ->
            [tsysfactors |-> [j \in 1..4 |-> IF j <= Len(f.factors)
                                             THEN f.factors[j] ELSE old[j]],
             returned |-> IF Len(f.factors) = 4 THEN "minical" ELSE "None",
             logged |-> IF Len(f.factors) = 4 THEN "none"
                        ELSE "Couldn't get previous minical results"]

\* the state when WBDCFrontEndServer(...) is called; tsysfactor1..4 = 1.0
InitWbdc ==
    /\ settings_file \in SettingsFiles
    /\ wpc = "init"
    /\ file_created = FALSE
    /\ tsysfactors = <<1, 1, 1, 1>>
    /\ wbdc_raised = "none" /\ wbdc_logged = "none"
    /\ retrieve_calls = 0

\* if not os.path.isfile(self.settings_file): open(self.settings_file, 'w').close()
WbdcEnsureFile ==
    /\ wpc = "init"
    /\ IF settings_file.kind = "missing"
       THEN \E writable \in BOOLEAN :
               IF writable
               THEN /\ file_created' = TRUE /\ wpc' = "retrieve"
                    /\ UNCHANGED wbdc_raised
               ELSE /\ wbdc_raised' = "IOError" /\ wpc' = "raised"
                    /\ UNCHANGED file_created
       ELSE /\ wpc' = "retrieve"
            /\ UNCHANGED <<file_created, wbdc_raised>>
    /\ UNCHANGED <<notWbdc, settings_file, tsysfactors, wbdc_logged, retrieve_calls>>

\* self.retrieve_previous_minical_results(), its return value dropped; the rest of
\* __init__ assigns self._modes and returns
WbdcRetrieve ==
    /\ wpc = "retrieve"
    /\ retrieve_calls' = retrieve_calls + 1
    /\ tsysfactors' = retrieve_previous_minical_results(
                          FileAfterInit(settings_file, file_created), tsysfactors).tsysfactors
    /\ wbdc_logged' = retrieve_previous_minical_results(
                          FileAfterInit(settings_file, file_created), tsysfactors).logged
    /\ wpc' = "constructed"
    /\ UNCHANGED <<notWbdc, settings_file, file_created, wbdc_raised>>

NextWbdc == WbdcEnsureFile \/ WbdcRetrieve

(* ---- DSS43K2Server.point_onsource ---- *)

\* answers of self.apc.onsource(); every answer but "ONSOURCE" keeps the loop going
ApcStatuses == {"ONSOURCE", "SLEWING"}
\* answers of self.apc.get_azel()
AzEls == [az : 0..2, el : 0..2]

\* line 1162: while onsource != "ONSOURCE"
LoopExitsAtOnce(status) == TRUE
LoopExits(status) == status = "ONSOURCE"

\* line 213: self._pointing_info = {'running': False}
InitPnt ==
    /\ pointing_running = FALSE
    /\ ppc = "idle"
    /\ onsource = "unset"
    /\ azel = [az |-> 0, el |-> 0]
    /\ point_polls = 0
    /\ point_updates = 0
    /\ point_cb = <<>>

\* line 1139
PtEnter ==
    /\ ppc = "idle"
    /\ pointing_running' = TRUE
    /\ ppc' = "point_source"
    /\ UNCHANGED <<onsource, azel, point_polls, point_updates, point_cb, notPnt>>

\* lines 1140-1160: the source is computed and sent to the APC, its answer is
\* reported with cb_updates and the status is read for the first time; a call
\* that raises ends the thread
PtPointSource ==
    /\ ppc = "point_source"
    /\ \/ /\ point_updates' = point_updates + 1
          /\ onsource' \in ApcStatuses
          /\ ppc' = "while"
       \/ /\ ppc' = "raised"
          /\ UNCHANGED <<point_updates, onsource>>
    /\ UNCHANGED <<pointing_running, azel, point_polls, point_cb, notPnt>>

\* lines 1162-1169: the loop test and one pass through the body; the antenna is
\* on source after at most MaxPolls passes
PtWhile ==
    /\ ppc = "while"
    /\ IF LoopExits(onsource)
       THEN /\ ppc' = "deliver"
            /\ UNCHANGED <<onsource, azel, point_polls, point_updates>>
       ELSE \/ /\ azel' \in AzEls
               /\ onsource' \in IF point_polls + 1 >= MaxPolls THEN {"ONSOURCE"}
                                ELSE ApcStatuses
               /\ point_polls' = point_polls + 1
               /\ point_updates' = point_updates + 1
               /\ ppc' = "while"
            \/ /\ ppc' = "raised"
               /\ UNCHANGED <<onsource, azel, point_polls, point_updates>>
    /\ UNCHANGED <<pointing_running, point_cb, notPnt>>

\* line 1174
PtDeliver ==
    /\ ppc = "deliver"
    /\ point_cb' = Append(point_cb, [status |-> "Pointing on source complete."])
    /\ ppc' = "clear"
    /\ UNCHANGED <<pointing_running, onsource, azel, point_polls, point_updates, notPnt>>

\* line 1175
PtClear ==
    /\ ppc = "clear"
    /\ pointing_running' = FALSE
    /\ ppc' = "returned"
    /\ UNCHANGED <<onsource, azel, point_polls, point_updates, point_cb, notPnt>>

NextPnt == PtEnter \/ PtPointSource \/ PtWhile \/ PtDeliver \/ PtClear

(* ---- TAMSHDF5File.convert_to_gbtidlfits, TAMSDataConsolidator.dump_gbtidlfits ---- *)

\* frequencies are in MHz here
\* line 113: center_freq = (float(center_freq) / 10) * 1e10, the argument being in GHz
CenterFreq(ghz) == ghz * 1000
\* line 164: thresh = 22.0e9
thresh == 22000

\* tsys[:, dst] = np.copy(tsys[:, src]), columns counted from 0 as in the code,
\* a row being indexed from 1 here
AssignColumn(row, dst, src) == [row EXCEPT ![dst + 1] = row[src + 1]]

\* lines 165-169
BelowBranch(row) == AssignColumn(AssignColumn(row, 1, 3), 2, 0)

\* lines 170-175: four assignments, each reading the row the earlier ones left
AboveBranchFromOriginal(row) ==
    [c \in 1..4 |-> CASE c = 1 -> row[2] [] c = 4 -> row[3]
                      [] c = 3 -> row[1] [] OTHER -> row[4]]
AboveBranch(row) ==
    AssignColumn(AssignColumn(AssignColumn(AssignColumn(row, 0, 1), 3, 2), 2, 0), 1, 3)

\* lines 164-175
RearrangeTsys(row, center_freq) ==
    LET below == IF center_freq < thresh THEN BelowBranch(row) ELSE row
    IN  IF center_freq > thresh THEN AboveBranch(below) ELSE below

\* line 145: tsys = self.df['Tsys'][...]
InitFits ==
    /\ center_freq_arg \in 21..23
    /\ tsys_read \in [1..4 -> 0..MaxReading]
    /\ tsys_row = tsys_read
    /\ fits_pc = "read"

ConvertToGbtidlFits ==
    /\ fits_pc = "read"
    /\ tsys_row' = RearrangeTsys(tsys_row, CenterFreq(center_freq_arg))
    /\ fits_pc' = "rearranged"
    /\ UNCHANGED <<center_freq_arg, tsys_read, notFits>>

NextFits == ConvertToGbtidlFits

(* ---- DSS43K2Server.spectrometer_callback and write_data ---- *)

InitSc ==
    /\ spc = "idle"
    /\ cb_calls = 0
    /\ rows_written = 0
    /\ closed_writes = 0

\* a write to the h5py file: it raises when the file has been closed
WriteTo(handle) == IF handle = "open" THEN "written" ELSE "closed"

\* an accumulation the spectrometer published reaches the oneway callback
\* (lines 1517-1526); publishing was started at line 1699
ScArrive ==
    /\ spc = "idle"
    /\ pc["rd"] = "returned"
    /\ cb_calls < MaxCalls
    /\ cb_calls' = cb_calls + 1
    /\ spc' = "if_df"
    /\ UNCHANGED <<rows_written, closed_writes, notSc>>

\* lines 1528-1536: if self.df: self.write_data(message, self.df, ...)
ScIfDf ==
    /\ spc = "if_df"
    /\ spc' = IF df = "open" THEN "write_spectrum" ELSE "idle"
    /\ UNCHANGED <<cb_calls, rows_written, closed_writes, notSc>>

\* write_data, lines 1373-1395: the spectrum is written and the datasets resized
ScWriteSpectrum ==
    /\ spc = "write_spectrum"
    /\ IF WriteTo(df) = "written"
       THEN spc' = "with_lock" /\ UNCHANGED closed_writes
       ELSE spc' = "idle" /\ closed_writes' = closed_writes + 1
    /\ UNCHANGED <<cb_calls, rows_written, notSc>>

\* write_data, lines 1407-1422: tsys and the antenna readings are read under self.lock
ScWithLock ==
    /\ spc = "with_lock"
    /\ lock = "free"
    /\ spc' = "write_row"
    /\ UNCHANGED <<cb_calls, rows_written, closed_writes, notSc>>

\* write_data, lines 1436-1466: the row is written and the file flushed
ScWriteRow ==
    /\ spc = "write_row"
    /\ IF WriteTo(df) = "written"
       THEN rows_written' = rows_written + 1 /\ UNCHANGED closed_writes
       ELSE closed_writes' = closed_writes + 1 /\ UNCHANGED rows_written
    /\ spc' = "idle"
    /\ UNCHANGED <<cb_calls, notSc>>

SpectrometerCallback == ScArrive \/ ScIfDf \/ ScWriteSpectrum \/ ScWithLock \/ ScWriteRow

NextSc == NextNod \/ SpectrometerCallback

(* ---- populate_client: callback_factory and method_factory ---- *)

\* lines 35-37: callback.ready = False, callback.data = None
InitCl ==
    /\ clpc = "idle" /\ call_no = 0 /\ cb_ready = FALSE
    /\ ready = FALSE /\ data = 0
    /\ cbpc = 0 /\ pending = {} /\ returned = <<>>

\* lines 54-63: the server method is invoked with the callback names; callback.ready
\* and callback.data are left as the previous call left them
ClInvoke ==
    /\ clpc = "idle"
    /\ call_no < MaxCalls + 1
    /\ call_no' = call_no + 1
    /\ pending' = pending \cup {call_no + 1}
    /\ clpc' = "read_ready"
    /\ UNCHANGED <<cb_ready, ready, data, cbpc, returned, notCl>>

\* lines 65-68: cb_ready = cb.ready, under the client's lock
ClReadReady ==
    /\ clpc = "read_ready"
    /\ cb_ready' = ready
    /\ clpc' = "while"
    /\ UNCHANGED <<call_no, ready, data, cbpc, pending, returned, notCl>>

\* lines 71-74: while not cb_ready: cb_ready = getattr(self, cb_name).ready
ClWhile ==
    /\ clpc = "while"
    /\ IF cb_ready THEN clpc' = "read_data" /\ UNCHANGED cb_ready
       ELSE cb_ready' = ready /\ UNCHANGED clpc
    /\ UNCHANGED <<call_no, ready, data, cbpc, pending, returned, notCl>>

\* lines 75-81: data = getattr(self, cb_name).data; return data
ClReturn ==
    /\ clpc = "read_data"
    /\ returned' = Append(returned, [call |-> call_no, data |-> data])
    /\ clpc' = "idle"
    /\ UNCHANGED <<call_no, cb_ready, ready, data, cbpc, pending, notCl>>

\* line 31: the terminal callback of a pending call arrives: callback.ready = True
CbSetReady ==
    /\ cbpc = 0
    /\ \E k \in pending :
          /\ cbpc' = k
          /\ pending' = pending \ {k}
    /\ ready' = TRUE
    /\ UNCHANGED <<clpc, call_no, cb_ready, data, returned, notCl>>

\* lines 32-34: callback.data = updates_or_results
CbSetData ==
    /\ cbpc # 0
    /\ data' = cbpc
    /\ cbpc' = 0
    /\ UNCHANGED <<clpc, call_no, cb_ready, ready, pending, returned, notCl>>

NextCl == ClInvoke \/ ClReadReady \/ ClWhile \/ ClReturn \/ CbSetReady \/ CbSetData

(* ---- WBDCFrontEndServer.perform_minical ---- *)

\* what self._set_WBDC(29) gives: the six results with the tsys factors they lead
\* to, a result that cannot be indexed ("False" when the hardware call raised,
\* line 317), or results whose reading of channel `zero` is a Python 0.0
MinicalAnswers ==
    [kind : {"ok"}, factors : {[j \in 1..4 |-> f] : f \in 1..MaxTsysFactor}, zero : {0}]
       \cup [kind : {"raises", "malformed"}, factors : {<<0, 0, 0, 0>>}, zero : {0}]
       \cup [kind : {"zero_reading"},
             factors : {[j \in 1..4 |-> MaxTsysFactor]}, zero : 1..4]

MinicalCalls == [simulated : BOOLEAN, save_config : BOOLEAN, hw : MinicalAnswers]
NoMinicalCall ==
    [simulated |-> TRUE, save_config |-> FALSE,
     hw |-> [kind |-> "raises", factors |-> <<0, 0, 0, 0>>, zero |-> 0]]
NoFile == [kind |-> "missing", factors |-> <<>>]

\* lines 1124-1150: the tsysfactor attributes after the try block; the four
\* assignments run in order, so a division by a zero reading keeps the earlier ones
FactorsAssigned(call, old) ==
    IF call.simulated \/ call.hw.kind \in {"raises", "malformed"} THEN old
    ELSE [j \in 1..4 |-> IF call.hw.kind = "zero_reading" /\ j >= call.hw.zero
                         THEN old[j] ELSE call.hw.factors[j]]

\* lines 1124-1165: return_vals, None unless every statement of the try block ran
ReturnVals(call) ==
    IF ~call.simulated /\ call.hw.kind = "ok"
    THEN [kind |-> "minical", factors |-> call.hw.factors]
    ELSE [kind |-> "null_minical", factors |-> <<>>]

\* lines 1167-1180: the settings file after `if save_config`; json.dump writes
\* 'minical': return_vals also when return_vals is None
FileSaved(call, f) ==
    IF ~call.save_config \/ f.kind \in {"missing", "unreadable"} THEN f
    ELSE ReturnVals(call)

InitPm ==
    /\ pm_pc = "idle"
    /\ pm_args = NoMinicalCall
    /\ factors_before = <<1, 1, 1, 1>>
    /\ file_before = NoFile /\ file_after = NoFile
    /\ pm_return = "pending"

\* perform_minical(q=None, save_config), called on a constructed server
PerformMinical ==
    /\ wpc = "constructed"
    /\ pm_pc = "idle"
    /\ \E call \in MinicalCalls :
          /\ pm_args' = call
          /\ tsysfactors' = FactorsAssigned(call, tsysfactors)
          /\ file_after' = FileSaved(call, FileAfterInit(settings_file, file_created))
          /\ pm_return' =
                IF call.save_config
                   /\ FileAfterInit(settings_file, file_created).kind \in {"missing", "unreadable"}
                THEN "IOError" ELSE ReturnVals(call).kind
    /\ factors_before' = tsysfactors
    /\ file_before' = FileAfterInit(settings_file, file_created)
    /\ pm_pc' = "performed"
    /\ UNCHANGED <<settings_file, wpc, file_created, wbdc_raised, wbdc_logged,
                   retrieve_calls, notWbdcPm>>

\* a later retrieve_previous_minical_results()
RetrieveLater ==
    /\ pm_pc = "performed"
    /\ tsysfactors' = retrieve_previous_minical_results(file_after, tsysfactors).tsysfactors
    /\ pm_pc' = "retrieved"
    /\ UNCHANGED <<settings_file, wpc, file_created, wbdc_raised, wbdc_logged,
                   retrieve_calls, pm_args, factors_before, file_before, file_after,
                   pm_return, notWbdcPm>>

NextPm == NextWbdc \/ PerformMinical \/ RetrieveLater

(* ---- DSS43K2Server.minical, minical_new and LongRunningWorker.run ---- *)

\* what perform_minical returns: None, or results with their tsys factors
NoResult == [none |-> TRUE, factor |-> 0]
PerformMinicalResults ==
    {NoResult} \cup [none : {FALSE}, factor : 1..MaxTsysFactor]

\* line 216: self._minical_info = {'running': False}
InitMc ==
    /\ minical_running = FALSE
    /\ mc_path = "direct"
    /\ mc_pc = "idle"
    /\ mc_worker = "none"
    /\ mc_result = NoResult
    /\ mc_delivered = <<>>
    /\ mc_calls = 0

\* lines 645 and 573: the flag is set on entry; an invocation follows the end of
\* the one before
McEnter ==
    /\ mc_pc \in {"idle", "returned"}
    /\ mc_worker \in {"none", "done"}
    /\ mc_calls < MaxInvocations
    /\ mc_calls' = mc_calls + 1
    /\ mc_path' \in {"worker", "direct", "new"}
    /\ minical_running' = TRUE
    /\ mc_worker' = "none"
    /\ mc_pc' = "entered"
    /\ UNCHANGED <<mc_result, mc_delivered, notMc>>

\* lines 647-655: if self.minical.socket_info: the worker is created and started
McStartWorker ==
    /\ mc_pc = "entered" /\ mc_path = "worker"
    /\ mc_worker' = "run"
    /\ mc_pc' = "clear"
    /\ UNCHANGED <<minical_running, mc_path, mc_result, mc_delivered, mc_calls, notMc>>

\* line 657: results = self.wbdc_fe.perform_minical(), which can raise (the save
\* of the settings file); lines 574-624 of minical_new, whose result is never None
McPerform ==
    /\ mc_pc = "entered" /\ mc_path # "worker"
    /\ \/ /\ mc_result' \in IF mc_path = "new" THEN PerformMinicalResults \ {NoResult}
                            ELSE PerformMinicalResults
          /\ mc_pc' = "deliver"
       \/ /\ mc_pc' = "raised"
          /\ UNCHANGED mc_result
    /\ UNCHANGED <<minical_running, mc_path, mc_worker, mc_delivered, mc_calls, notMc>>

\* line 661: self.minical.cb(results); line 626: self.minical_new.cb(results)
McDeliver ==
    /\ mc_pc = "deliver"
    /\ mc_delivered' = Append(mc_delivered, mc_result)
    /\ mc_pc' = "clear"
    /\ UNCHANGED <<minical_running, mc_path, mc_worker, mc_result, mc_calls, notMc>>

\* lines 663 and 627
McClear ==
    /\ mc_pc = "clear"
    /\ minical_running' = FALSE
    /\ mc_pc' = "returned"
    /\ UNCHANGED <<mc_path, mc_worker, mc_result, mc_delivered, mc_calls, notMc>>

\* LongRunningWorker.run, line 40: the method is called; an exception gives None
WorkerCall ==
    /\ mc_worker = "run"
    /\ mc_result' \in PerformMinicalResults
    /\ mc_worker' = "cb"
    /\ UNCHANGED <<minical_running, mc_path, mc_pc, mc_delivered, mc_calls, notMc>>

\* LongRunningWorker.run, lines 41 and 44: self.cb(result) / self.cb(None)
WorkerCb ==
    /\ mc_worker = "cb"
    /\ mc_delivered' = Append(mc_delivered, mc_result)
    /\ mc_worker' = "done"
    /\ UNCHANGED <<minical_running, mc_path, mc_pc, mc_result, mc_calls, notMc>>

NextMc ==
    \/ McEnter \/ McStartWorker \/ McPerform \/ McDeliver \/ McClear
    \/ WorkerCall \/ WorkerCb

(* --------------------------- specifications ----------------------------- *)

QuietPoller ==
    /\ worker = "PowerMeterWorker"
    /\ wPc = "unborn"
    /\ reading = 0 /\ info = 0 /\ delivered = 0
    /\ pLock = FALSE
    /\ connection_closed_errors = 0
    /\ communication_errors = 0
    /\ cb_silenced = FALSE
    /\ stopReq = FALSE /\ paused = FALSE
    /\ invoked = FALSE /\ consecComm = 0 /\ hitMax = FALSE

QuietNod ==
    /\ n_cycles = 0 /\ time_per_scan = 0
    /\ pc = [t \in {"rd", "seq", "ir"} |-> "idle"]
    /\ n = 0 /\ i = 0 /\ tick = 0 /\ n_scan = -1 /\ completed_cycles = 0
    /\ stopFlag = FALSE /\ running = FALSE /\ twobeamworker = FALSE
    /\ scans = <<>> /\ feed_statuses = <<>> /\ feedCmd = -1 /\ lock = "free" /\ df = "none"
    /\ publishing_started = FALSE /\ daRunning = FALSE /\ cbCount = 0
    /\ stop_requests = 0 /\ sn_reports = <<>>
    /\ pointFails = 0 /\ finalDwellDone = FALSE /\ stopEarly = FALSE

QuietProc == InitProc

QuietBs == n_points = 0 /\ fwhm = 1 /\ bs_points = Pending

QuietMinical ==
    /\ mPc = "idle"
    /\ bias = [r \in 1..2 |-> TRUE]
    /\ feed_state = [r \in 1..2 |-> "sky"]
    /\ noise_diode = FALSE
    /\ calib = <<>>
    /\ order = <<>>

QuietCal ==
    /\ cal_data = [k \in ReadingKeys \cup {"Tload"} |-> [c \in Channels |-> Flt(0)]]
    /\ cal_given = cal_data
    /\ cal_results = <<>>
    /\ minical_cb = <<>>
    /\ tsysfactor = [c \in Channels |-> Flt(1)]
    /\ pm_readings = <<>>
    /\ tsys = <<>>

QuietWelch ==
    /\ w_args = [mean1 |-> PyFloat(Flt(0)), mean2 |-> PyFloat(Flt(0)), type |-> "float",
                 sigma1 |-> 0, sigma2 |-> 0, n1 |-> 1, n2 |-> 1]
    /\ w_result = WelchPending

QuietBore ==
    /\ b_args = [iterations |-> 0, n_points |-> 6, k_band_fwhm |-> 2,
                 el_previous_offsets |-> 0, xel_previous_offsets |-> 0]
    /\ b_running = FALSE /\ bpc = "idle" /\ b_points = Pending
    /\ i_iter = 0 /\ direction = 1 /\ item = 1 /\ integrated_data = 0
    /\ avg_tsys = None
    /\ prev_offsets = [d \in DirectionSet |-> [f \in FieldSet |-> Flt(0)]]
    /\ delta_offsets = [d \in DirectionSet |-> [f \in FieldSet |-> <<>>]]
    /\ gauss_results = NoFits /\ boresight_cb = <<>>
    /\ offsets_commanded = 0 /\ fits_done = 0 /\ corrections = 0
    /\ apc_corrections = <<>>
    /\ boresight_offset = [d \in DirectionSet |-> Flt(0)]
    /\ curve_fit_raised = [f \in FieldSet |-> FALSE]
    /\ curve_fit_errors = 0
    /\ stopped_in_sweep = FALSE /\ read_false = FALSE
    /\ dir_points = <<>> /\ integrated_at = <<>>
    /\ apc_offset = [d \in DirectionSet |-> Flt(0)]

QuietTip ==
    /\ tip_running = FALSE /\ tpc = "idle" /\ el_index = 1 /\ tipping_record_el = 0
    /\ tipping_results = <<>> /\ tipping_cb = <<>> /\ tipping_updates = "none"
    /\ pm_worker_paused = FALSE /\ stopped_in_loop = FALSE

QuietWbdc ==
    /\ settings_file = [kind |-> "minical", factors |-> <<1, 1, 1, 1>>]
    /\ wpc = "init" /\ file_created = FALSE /\ tsysfactors = <<1, 1, 1, 1>>
    /\ wbdc_raised = "none" /\ wbdc_logged = "none" /\ retrieve_calls = 0

QuietPnt ==
    /\ pointing_running = FALSE /\ ppc = "idle" /\ onsource = "unset"
    /\ azel = [az |-> 0, el |-> 0] /\ point_polls = 0 /\ point_updates = 0
    /\ point_cb = <<>>

QuietFits ==
    /\ center_freq_arg = 21 /\ tsys_read = <<0, 0, 0, 0>> /\ tsys_row = <<0, 0, 0, 0>>
    /\ fits_pc = "read"

QuietSc ==
    /\ spc = "idle" /\ cb_calls = 0 /\ rows_written = 0 /\ closed_writes = 0

QuietCl ==
    /\ clpc = "idle" /\ call_no = 0 /\ cb_ready = FALSE /\ ready = FALSE /\ data = 0
    /\ cbpc = 0 /\ pending = {} /\ returned = <<>>

QuietPm ==
    /\ pm_pc = "idle" /\ pm_args = NoMinicalCall /\ factors_before = <<1, 1, 1, 1>>
    /\ file_before = NoFile /\ file_after = NoFile /\ pm_return = "pending"

QuietMc ==
    /\ minical_running = FALSE /\ mc_path = "direct" /\ mc_pc = "idle" /\ mc_worker = "none"
    /\ mc_result = NoResult /\ mc_delivered = <<>> /\ mc_calls = 0

NodInit == InitNod /\ QuietPoller /\ QuietProc /\ QuietBs /\ QuietMinical /\ QuietCal /\ QuietWelch /\ QuietBore /\ QuietTip /\ QuietWbdc /\ QuietPnt /\ QuietFits /\ QuietSc /\ QuietCl /\ QuietPm /\ QuietMc

SpecNod == NodInit /\ [][NextNod]_vars

FairSpecNod ==
    /\ SpecNod
    /\ WF_vars(SeqRun \/ SnStopPublishing("seq") \/ SnCloseDatafile("seq") \/ SnReport("seq"))
    /\ WF_vars(InterruptRecording \/ SnStopPublishing("ir") \/ SnCloseDatafile("ir") \/ SnReport("ir"))

PollerInit == InitPoller /\ QuietNod /\ QuietProc /\ QuietBs /\ QuietMinical /\ QuietCal /\ QuietWelch /\ QuietBore /\ QuietTip /\ QuietWbdc /\ QuietPnt /\ QuietFits /\ QuietSc /\ QuietCl /\ QuietPm /\ QuietMc

SpecPoller == PollerInit /\ [][NextPoller]_vars

ProcInit == InitProc /\ QuietNod /\ QuietPoller /\ QuietBs /\ QuietMinical /\ QuietCal /\ QuietWelch /\ QuietBore /\ QuietTip /\ QuietWbdc /\ QuietPnt /\ QuietFits /\ QuietSc /\ QuietCl /\ QuietPm /\ QuietMc

SpecProc == ProcInit /\ [][NextProc]_vars

BsInit == InitBs /\ QuietNod /\ QuietPoller /\ QuietProc /\ QuietMinical /\ QuietCal /\ QuietWelch /\ QuietBore /\ QuietTip /\ QuietWbdc /\ QuietPnt /\ QuietFits /\ QuietSc /\ QuietCl /\ QuietPm /\ QuietMc

SpecBs == BsInit /\ [][NextBs]_vars

MinicalInit == InitMinical /\ QuietNod /\ QuietPoller /\ QuietProc /\ QuietBs /\ QuietCal /\ QuietWelch /\ QuietBore /\ QuietTip /\ QuietWbdc /\ QuietPnt /\ QuietFits /\ QuietSc /\ QuietCl /\ QuietPm /\ QuietMc

SpecMinical == MinicalInit /\ [][NextMinical]_vars

CalInit == InitCal /\ QuietNod /\ QuietPoller /\ QuietProc /\ QuietBs /\ QuietMinical /\ QuietWelch /\ QuietBore /\ QuietTip /\ QuietWbdc /\ QuietPnt /\ QuietFits /\ QuietSc /\ QuietCl /\ QuietPm /\ QuietMc

SpecCal == CalInit /\ [][NextCal]_vars

WelchInit ==
    /\ InitWelch /\ QuietNod /\ QuietPoller /\ QuietProc /\ QuietBs /\ QuietMinical
    /\ QuietCal /\ QuietBore /\ QuietTip /\ QuietWbdc /\ QuietPnt /\ QuietFits /\ QuietSc /\ QuietCl /\ QuietPm /\ QuietMc

SpecWelch == WelchInit /\ [][NextWelch]_vars

BoreInit ==
    /\ InitBore /\ QuietNod /\ QuietPoller /\ QuietProc /\ QuietBs /\ QuietMinical
    /\ QuietCal /\ QuietWelch /\ QuietTip /\ QuietWbdc /\ QuietPnt /\ QuietFits /\ QuietSc /\ QuietCl /\ QuietPm /\ QuietMc

SpecBore == BoreInit /\ [][NextBore]_vars

TipInit ==
    /\ InitTip /\ QuietNod /\ QuietPoller /\ QuietProc /\ QuietBs /\ QuietMinical
    /\ QuietCal /\ QuietWelch /\ QuietBore /\ QuietWbdc /\ QuietPnt /\ QuietFits /\ QuietSc /\ QuietCl /\ QuietPm /\ QuietMc

\* the thread serving tipping keeps running; the antenna comes within tolerance
\* of its target after at most MaxPolls samples
FairSpecTip == TipInit /\ [][NextTip]_vars /\ WF_vars(TippingThread)

WbdcInit ==
    /\ InitWbdc /\ QuietNod /\ QuietPoller /\ QuietProc /\ QuietBs /\ QuietMinical
    /\ QuietCal /\ QuietWelch /\ QuietBore /\ QuietTip /\ QuietPnt /\ QuietFits /\ QuietSc /\ QuietCl /\ QuietPm /\ QuietMc

SpecWbdc == WbdcInit /\ [][NextWbdc]_vars

PntInit ==
    /\ InitPnt /\ QuietPoller /\ QuietNod /\ QuietProc /\ QuietBs /\ QuietMinical
    /\ QuietCal /\ QuietWelch /\ QuietBore /\ QuietTip /\ QuietWbdc /\ QuietFits /\ QuietSc /\ QuietCl /\ QuietPm /\ QuietMc

SpecPnt == PntInit /\ [][NextPnt]_vars

\* the thread serving point_onsource keeps running
FairSpecPnt == SpecPnt /\ WF_vars(NextPnt)

FitsInit ==
    /\ InitFits /\ QuietPoller /\ QuietNod /\ QuietProc /\ QuietBs /\ QuietMinical
    /\ QuietCal /\ QuietWelch /\ QuietBore /\ QuietTip /\ QuietWbdc /\ QuietPnt /\ QuietSc /\ QuietCl /\ QuietPm /\ QuietMc

SpecFits == FitsInit /\ [][NextFits]_vars

ScInit ==
    /\ InitNod /\ InitSc /\ QuietPoller /\ QuietProc /\ QuietBs /\ QuietMinical
    /\ QuietCal /\ QuietWelch /\ QuietBore /\ QuietTip /\ QuietWbdc /\ QuietPnt /\ QuietFits /\ QuietCl /\ QuietPm /\ QuietMc

SpecSc == ScInit /\ [][NextSc]_vars

ClInit ==
    /\ InitCl /\ QuietPoller /\ QuietNod /\ QuietProc /\ QuietBs /\ QuietMinical
    /\ QuietCal /\ QuietWelch /\ QuietBore /\ QuietTip /\ QuietWbdc /\ QuietPnt /\ QuietFits /\ QuietSc /\ QuietPm /\ QuietMc

SpecCl == ClInit /\ [][NextCl]_vars

PmInit ==
    /\ InitWbdc /\ InitPm /\ QuietPoller /\ QuietNod /\ QuietProc /\ QuietBs /\ QuietMinical
    /\ QuietCal /\ QuietWelch /\ QuietBore /\ QuietTip /\ QuietPnt /\ QuietFits /\ QuietSc /\ QuietCl /\ QuietMc

SpecPm == PmInit /\ [][NextPm]_vars

McInit ==
    /\ InitMc /\ QuietPoller /\ QuietNod /\ QuietProc /\ QuietBs /\ QuietMinical
    /\ QuietCal /\ QuietWelch /\ QuietBore /\ QuietTip /\ QuietWbdc /\ QuietPnt /\ QuietFits /\ QuietSc /\ QuietCl /\ QuietPm

SpecMc == McInit /\ [][NextMc]_vars

(* ---------------------- properties of the poller ------------------------ *)

\* C4: for each poller class, once the update callback has failed with
\* CommunicationError on max_communication_errors consecutive iterations, no later
\* iteration invokes the original callback, and the thread leaves its loop only
\* when stop() was requested.
C4_SilencedForGood ==
    [][hitMax => /\ (invoked' => invoked)
                 /\ (wPc' = "stopped" => stopReq)]_vars

\* C4 witness: an APCWorker that failed three times in a row has since run a whole
\* further iteration through the callback step without invoking the callback.
C4_Witness ==
    /\ worker = "APCWorker" /\ hitMax /\ communication_errors = 3
    /\ connection_closed_errors = 0
    /\ cb_silenced /\ wPc = "degrade" /\ ~invoked /\ ~stopReq

(* ------------------ properties of the procedure flags ------------------- *)

\* C6: at every moment at most one of the data-acquisition, boresight, tipping and
\* minical running flags is True.
C6_OneProcedureRunning == Cardinality({f \in Flags : flag[f]}) <= 1

\* C7: at every moment at most one call of each procedure type (record_data,
\* boresight, tipping, minical/minical_new) is executing.
C7_NoReentrantStart == \A f \in Flags : Cardinality(Executing(f)) <= 1

(* -------------------- properties of calc_bs_points ---------------------- *)

EvenlySpaced(s) ==
    \A k \in 1..(Len(s) - 2) : RatEq(RatSub(s[k + 1], s[k]), RatSub(s[k + 2], s[k + 1]))

\* C8: for n_points in 6..14 calc_bs_points returns exactly n_points points, the
\* first -22 and the last +22, the n_points-2 between them evenly spaced from -3 to
\* +3, and the scaled grid is each point times the beamwidth.
C8_GridShape ==
    (bs_points.outcome # "pending" /\ n_points \in 6..14) =>
        /\ bs_points.outcome = "grid"
        /\ LET pts == bs_points.points
               inner == SubSeq(pts, 2, n_points - 1)
           IN  /\ Len(pts) = n_points
               /\ RatEq(pts[1], <<-22, 1>>)
               /\ RatEq(pts[n_points], <<22, 1>>)
               /\ Len(inner) = n_points - 2
               /\ RatEq(inner[1], <<-3, 1>>)
               /\ RatEq(inner[n_points - 2], <<3, 1>>)
               /\ EvenlySpaced(inner)
               /\ Len(bs_points.points_scaled) = n_points
               /\ \A k \in 1..n_points :
                     RatEq(bs_points.points_scaled[k], <<pts[k][1] * fwhm, pts[k][2]>>)

\* C8 witness: the default nine points with a beamwidth of 2: -22, -3, -2, ..., 3, 22
\* and their doubles.
C8_Witness ==
    /\ n_points = 9 /\ fwhm = 2 /\ bs_points.outcome = "grid"
    /\ bs_points.points = << <<-22, 1>>, <<-18, 6>>, <<-12, 6>>, <<-6, 6>>, <<0, 6>>,
                             <<6, 6>>, <<12, 6>>, <<18, 6>>, <<22, 1>> >>
    /\ bs_points.points_scaled[2] = <<-36, 6>>

\* C9: for n_points < 6 or n_points >= 15 calc_bs_points returns no grid.
C9_OutOfRangeRejected ==
    (bs_points.outcome # "pending" /\ (n_points < 6 \/ n_points >= 15)) =>
        bs_points.outcome \in {"None", "ValueError"}

(* ---------------------- properties of minical_new ----------------------- *)

\* C10: when minical_new has taken its five readings, they were taken in the order
\* zero, load, load+ND, sky+ND, sky, with: zero - preamp bias off; load - bias on,
\* feeds on load, noise diode off; load+ND - feeds on load, noise diode on;
\* sky+ND - feeds on sky, noise diode on; sky - feeds on sky, noise diode off.
C10_ReadingStates ==
    mPc = "done" =>
        /\ order = <<"zero", "load", "load+ND", "sky+ND", "sky">>
        /\ \A r \in 1..2 :
             /\ ~calib["zero"].bias[r]
             /\ calib["load"].bias[r] /\ calib["load"].feed[r] = "load"
             /\ calib["load+ND"].feed[r] = "load"
             /\ calib["sky+ND"].feed[r] = "sky"
             /\ calib["sky"].feed[r] = "sky"
        /\ ~calib["load"].nd
        /\ calib["load+ND"].nd
        /\ calib["sky+ND"].nd
        /\ ~calib["sky"].nd

(* ------- properties of process_minical_calib and the tsys factors ------- *)

\* C11: once minical_new has delivered results with tsys factors F, every get_tsys
\* multiplies power-meter reading i by F[i].
C11_FactorsApplied ==
    [][(minical_cb # <<>> /\ <<pm_readings, tsys>>' # <<pm_readings, tsys>>) =>
          \A c \in Channels :
              tsys'[c] = NpMul(pm_readings'[c], minical_cb[1].tsys_factors[c])]_vars

AllReadingsEqual ==
    \E v \in 0..MaxReading :
        \A k \in ReadingKeys : cal_data[k] = [c \in Channels |-> Flt(v)]

C15_IterationResult ==
    \A k \in 1..Len(boresight_cb) :
        LET result == boresight_cb[k]
        IN  result # EmptyResult =>
              /\ {"fit_results", "delta_offsets", "iter", "total_iter"} \subseteq result.keys
              /\ result.iter = k
              /\ result.total_iter = b_args.iterations
              /\ \A d \in DirectionSet : \A f \in FieldSet :
                    /\ result.fit_results[d][f] # NoFit
                    /\ result.fit_results[d][f].axis_type = d
                    /\ Len(result.delta_offsets[d][f]) = k

\* the second iteration of an uncancelled boresight has delivered its result
C15_Witness ==
    /\ Len(boresight_cb) = 2
    /\ boresight_cb[2] # EmptyResult
    /\ ~read_false

\* C16: one invocation of boresight delivers exactly one terminal result, for
\* every iterations >= 1 and cancelled or not, and nothing through the result
\* callback before it ends.
C16_OneTerminalResult ==
    /\ (bpc \in BoreHalted /\ b_args.iterations >= 1) => Len(boresight_cb) = 1
    /\ (bpc \notin BoreHalted) => boresight_cb = <<>>

\* what a cancelled sweep must leave alone from this step on
SweepAbandoned ==
    /\ offsets_commanded' = offsets_commanded
    /\ fits_done' = fits_done
    /\ corrections' = corrections
    /\ <<i_iter, direction>>' = <<i_iter, direction>>
    /\ (bpc \notin BoreHalted /\ bpc' \in BoreHalted) =>
          boresight_cb' = Append(boresight_cb, EmptyResult)

\* C18: once the flag has become False during an axis sweep, no further grid
\* offset is commanded, no fit is made, no correction applied, no further axis or
\* iteration swept, and the boresight ends by delivering an empty result.
C18_StopDuringSweep == [][stopped_in_sweep => SweepAbandoned]_vars

\* C18 as the code has it: the same from the moment grab_pm_data reads the flag
\* as False before commanding a grid point.
C18_StopSeenBySweep == [][read_false => SweepAbandoned]_vars

\* a sweep cancelled after some of its points has ended with the empty result
C18_Witness ==
    /\ read_false
    /\ bpc = "returned"
    /\ offsets_commanded > 0
    /\ boresight_cb = <<EmptyResult>>

\* C19: when curve_fit raises for any of the three signals of an axis, the fit of
\* that signal is the all-zero placeholder with offset 0, its running total is
\* unchanged, and the boresight goes on to the next axis or to delivering its
\* result.
C19_FitFailureTolerated ==
    [][(bpc = "fit" /\ bpc' # "fit" /\ \E f \in FieldSet : curve_fit_raised'[f]) =>
          /\ \A f \in FieldSet : curve_fit_raised'[f] =>
                LET fit == gauss_results'[Directions[direction]][f]
                IN  /\ \A j \in 1..5 : fit.popt[j].v = Flt(0)
                    /\ fit.BS_offset = Flt(0)
                    /\ prev_offsets'[Directions[direction]][f] =
                          prev_offsets[Directions[direction]][f]
          /\ bpc' \in {"for_direction", "deliver"}]_vars

(* ----------------------- properties of stop_nodding --------------------- *)

\* C20: when the spectrometer still reports publishing after stop_nodding asked
\* it to pause and stop, stop_nodding asks no second time: it sends an error
\* status update with scan = -1, invokes the terminal callback, clears the
\* data-acquisition running flag and raises to its caller.
C20_StillPublishingReported ==
    [][\A t \in {"seq", "ir"} :
          (pc[t] = "sn_report" /\ pc'[t] # pc[t] /\ publishing_started) =>
             /\ sn_reports' = Append(sn_reports, sn_reports'[Len(sn_reports')])
             /\ sn_reports'[Len(sn_reports')].raised = "RuntimeError"
             /\ sn_reports'[Len(sn_reports')].scan = -1
             /\ sn_reports'[Len(sn_reports')].status # "Datafile closed, observing finished."
             /\ scans' = Append(scans, -1)
             /\ cbCount' = cbCount + 1
             /\ ~daRunning'
             /\ stop_requests' = stop_requests
             /\ pc'[t] = "sn_ret"]_vars

\* a stop_nodding call has ended in the error branch
C20_Witness ==
    /\ sn_reports # <<>>
    /\ sn_reports[Len(sn_reports)].raised = "RuntimeError"
    /\ publishing_started
    /\ ~daRunning

(* ------------------------- properties of tipping ------------------------ *)

\* C17: every tipping invocation eventually delivers exactly one terminal
\* callback, also when stop_tipping arrives while samples are being recorded in
\* the tolerance-polling loop.
C17_TerminalCallback ==
    /\ [](Len(tipping_cb) <= 1)
    /\ <>(Len(tipping_cb) = 1)

\* C38: whenever tipping has ended, by completion or by cancellation at any step,
\* the power-meter poller it paused at its start is unpaused again and the tipping
\* running flag is False
C38_PollerUnpausedAtEnd ==
    tpc = "returned" => (~pm_worker_paused /\ ~tip_running)

(* --------------------- properties of welchs_t_test ---------------------- *)

\* C14: for equal means, equal sigmas and equal sample counts welchs_t_test
\* returns t = 0.
C14_IdenticalGivesZero ==
    (/\ w_result # WelchPending
     /\ w_args.mean1.v = w_args.mean2.v
     /\ w_args.sigma1 = w_args.sigma2
     /\ w_args.n1 = w_args.n2) =>
        (w_result.raised = "none" /\ w_result.t = Flt(0))

(* ------------------- properties of the record_data run ----------------- *)

NonSentinel(s) == SelectSeq(s, LAMBDA x : x # -1)
StrictlyIncreasing(s) == \A a, b \in 1..Len(s) : a < b => s[a] < s[b]
MaxScan(s) == IF s = <<>> THEN 0 ELSE CHOOSE m \in {s[k] : k \in 1..Len(s)} :
                                        \A k \in 1..Len(s) : s[k] <= m
SeqHalted == pc["seq"] \in {"done", "cancelled"}

\* C1 as stated: when an uncancelled run of TwoBeamNodWorker.run has ended, the scan
\* numbers of its status updates, ignoring -1, are strictly increasing and their
\* maximum is 2*n_cycles.
C1_MaxScanIsTwiceNCycles ==
    pc["seq"] = "done" =>
        /\ StrictlyIncreasing(NonSentinel(scans))
        /\ MaxScan(NonSentinel(scans)) = 2 * n_cycles

\* C1 amended: the emitted scan numbers, ignoring -1, are strictly increasing at
\* every moment, and when an uncancelled run has ended their maximum is
\* 2*completed_cycles, where completed_cycles is n_cycles minus the number of
\* cycles whose point_onsource failed (so 2*n_cycles when no pointing failed).
C1_ScanNumbering ==
    /\ StrictlyIncreasing(NonSentinel(scans))
    /\ pc["seq"] = "done" =>
        /\ completed_cycles = n_cycles - pointFails
        /\ MaxScan(NonSentinel(scans)) = 2 * completed_cycles
        /\ (pointFails = 0 => MaxScan(NonSentinel(scans)) = 2 * n_cycles)

\* C1 witness: a run of three cycles ended uncancelled with one failed pointing, so
\* scans 1..4 were emitted.
C1_Witness ==
    /\ pc["seq"] = "done" /\ ~stopFlag
    /\ n_cycles = 3 /\ pointFails = 1
    /\ NonSentinel(scans) = <<1, 2, 3, 4>>

\* C2: after a cancelled run in which a feed was commanded, the last commanded feed
\* position is feed 1 (feed_change index 0).
C2_FeedRestoredOnCancel ==
    (pc["seq"] = "cancelled" /\ feedCmd # -1) => feedCmd = 0

\* C3 as stated (its safety part): when a sequencer with n_cycles >= 1 that was
\* stopped while running, before its final dwell had elapsed, has halted, its running
\* flag is False and completed_cycles < n_cycles.
C3_StoppedRunIsIncomplete ==
    (stopEarly /\ n_cycles >= 1 /\ SeqHalted) =>
        (~running /\ completed_cycles < n_cycles)

\* C3 amended: if stop is requested on a running sequencer with n_cycles >= 1 and a
\* time_per_scan of at least one 10 ms poll, before its final dwell has elapsed, the
\* sequencer eventually halts with running False and completed_cycles < n_cycles,
\* and the wait loop of interrupt_recording terminates.
C3_StopEventuallyHalts ==
    /\ (stopEarly /\ n_cycles >= 1 /\ time_per_scan >= 1)
         ~> (SeqHalted /\ ~running /\ completed_cycles < n_cycles)
    /\ (pc["ir"] = "ir_wait") ~> (pc["ir"] # "ir_wait")

\* C3 witness: three cycles, stop requested during cycle 2, the sequencer cancelled
\* with one completed cycle and interrupt_recording has returned.
C3_Witness ==
    /\ stopEarly /\ n_cycles = 3 /\ time_per_scan >= 1
    /\ pc["seq"] = "cancelled" /\ ~running /\ completed_cycles = 1
    /\ pc["ir"] = "ir_done"

\* C5: the terminal callback of a record_data run is delivered at most once, and
\* exactly once when the sequencer and interrupt_recording (if called) have ended.
C5_TerminalCallbackOnce ==
    /\ cbCount <= 1
    /\ (SeqHalted /\ pc["ir"] \in {"idle", "ir_done"}) => cbCount = 1

(* ----------------- further properties of the nodding run ---------------- *)

\* C21: when point_onsource returns false in a cycle, the sequencer does not call it
\* again for that cycle, commands no feed change and emits no status update for the
\* cycle, leaves the scan number at -1 and completed_cycles unchanged, and after the
\* file flush goes on to the next cycle.
C21_FailedPointSkipsCycle ==
    [][/\ (pc["seq"] = "point" /\ pointFails' # pointFails) =>
              /\ pc'["seq"] = "save" /\ n_scan' = -1
              /\ UNCHANGED <<n, completed_cycles, feedCmd, scans>>
       /\ (pc["seq"] \in {"save", "save_rel"} /\ n_scan = -1) =>
              /\ UNCHANGED <<n_scan, completed_cycles, feedCmd, scans, pointFails>>
              /\ pc'["seq"] \in {"save", "save_rel", "for_n"}
              /\ (pc'["seq"] = "for_n" => n' = n + 1)]_vars

\* C21 witness: the first cycle's pointing failed and the sequencer stands at the head
\* of the second cycle with nothing commanded, nothing reported and no cycle counted.
C21_Witness ==
    /\ pointFails = 1 /\ pc["seq"] = "for_n" /\ n = 1 /\ n_cycles >= 2
    /\ completed_cycles = 0 /\ scans = <<>> /\ feedCmd = -1 /\ n_scan = -1

\* C22: once the sequencer thread exists, a thread that writes the shared data file
\* handle df or the data-acquisition running flag holds the orchestrator lock while
\* it does so.
C22_SharedStateUnderLock ==
    [][\A t \in {"rd", "seq", "ir"} :
          (/\ pc["seq"] # "idle"
           /\ pc'[t] # pc[t]
           /\ (df' # df \/ daRunning' # daRunning)) => lock = t]_vars

(* -------------------- further properties of the poller ------------------ *)

\* C23: on every iteration of every poller class (PowerMeterWorker, APCWorker,
\* RMSWorker) the update callback is reached with the orchestrator lock held and with
\* the new reading already stored in the orchestrator's last-known-state slot, and
\* the callback is given that same reading.
C23_StoredUnderLockAndDelivered ==
    [][(wPc = "callback" /\ wPc' = "degrade") =>
           /\ pLock /\ info = reading
           /\ (invoked' => delivered' = reading)]_vars

\* C27: in a PowerMeterWorker or APCWorker run whose callback failures are all
\* CommunicationErrors, the update callback is replaced by the no-op only when
\* max_communication_errors consecutive iterations have failed; failures separated by
\* successes do not silence it.
C27_OnlyConsecutiveFailuresSilence ==
    [][(/\ UsesLock(worker) /\ connection_closed_errors = 0
        /\ ~cb_silenced /\ cb_silenced') =>
           consecComm >= max_communication_errors]_vars

\* C26: the status update that opens the dwell on feed index i carries
\* feed_status = i+1 and scan = 2*completed_cycles + i + 1, and among all status
\* updates delivered those with feed_status 1 have odd and those with feed_status 2
\* have even scan numbers.
C26_DwellUpdateNumbering ==
    /\ [](/\ Len(feed_statuses) = Len(scans)
          /\ \A k \in 1..Len(scans) :
                /\ feed_statuses[k] = 1 => (scans[k] >= 1 /\ scans[k] % 2 = 1)
                /\ feed_statuses[k] = 2 => (scans[k] >= 2 /\ scans[k] % 2 = 0))
    /\ [][(pc["seq"] = "on_emit" /\ pc'["seq"] = "dwell") =>
             /\ i \in {0, 1}
             /\ scans' = Append(scans, 2 * completed_cycles + i + 1)
             /\ feed_statuses' = Append(feed_statuses, i + 1)]_vars

\* C26 witness: two complete cycles have reported feeds 1, 2, 1, 2 with scans 1 to 4.
C26_Witness ==
    /\ scans = <<-1, 1, -1, 2, -1, 3, -1, 4>>
    /\ feed_statuses = <<0, 1, 0, 2, 0, 1, 0, 2>>
    /\ completed_cycles = 2

\* C25: while the sequencer is pointing, switching feed, flushing the file after a
\* cycle, restoring the feed after the last cycle or tearing the run down, get_scan
\* returns -1.
C25_SentinelOutsideDwell ==
    pc["seq"] \in {"point", "feed", "on_emit", "save", "save_rel", "restore", "clear",
                   "lock_stop", "sn_stop", "sn_close", "sn_report", "sn_ret"}
        => n_scan = -1

\* C28: a sequencer that has run all its cycles without cancellation commands feed
\* position 1 (index 0), then clears its running flag, then runs stop_nodding holding
\* the orchestrator lock; when that stop_nodding has returned normally the data file
\* handle is None and the data-acquisition running flag is False.
C28_TeardownOrderAndResult ==
    ~stopFlag =>
        /\ pc["seq"] = "clear" => (feedCmd = 0 /\ running)
        /\ pc["seq"] = "lock_stop" => (feedCmd = 0 /\ ~running)
        /\ pc["seq"] \in {"sn_stop", "sn_close", "sn_report", "sn_ret"}
              => (feedCmd = 0 /\ ~running /\ lock = "seq")
        /\ (pc["seq"] = "sn_ret" /\ sn_reports[Len(sn_reports)].raised = "none")
              => (df = "none" /\ ~daRunning)

(* ------------- properties of the WBDC front-end construction ------------ *)

\* C35: under every interleaving of the setup steps of record_data with the
\* sequencer thread it has started (no interrupt_recording), once the stop_nodding
\* of the sequencer has returned normally the data file handle is None and the
\* spectrometer is not publishing, and from then on no data file is opened and no
\* publishing started
C35_NoSetupAfterTeardown ==
    /\ []((pc["ir"] = "idle" /\ sn_reports # <<>>
                /\ sn_reports[Len(sn_reports)].raised = "none")
             => (df = "none" /\ ~publishing_started))
    /\ [][(pc["ir"] = "idle" /\ sn_reports # <<>>) =>
             /\ ~(df = "none" /\ df' = "open")
             /\ ~(~publishing_started /\ publishing_started')]_vars

\* C24: when the settings file is missing, cannot be read or holds no minical results,
\* the constructor of the WBDC front-end server ends by raising an error to its
\* caller, having tried to read the file at most once.
C24_BadSettingsFileSurfaced ==
    (/\ wpc \in {"constructed", "raised"}
     /\ ~(settings_file.kind = "minical" /\ Len(settings_file.factors) = 4))
        => (wpc = "raised" /\ wbdc_raised # "none" /\ retrieve_calls <= 1)

(* ---------------- further properties of the boresight ------------------- *)

\* the exact sum of a list of calculated offsets
RECURSIVE SumOfOffsets(_)
SumOfOffsets(s) ==
    IF s = <<>> THEN Flt(0)
    ELSE NpAdd(SumOfOffsets(SubSeq(s, 1, Len(s) - 1)), s[Len(s)])

\* C29: for each axis and each of the three fitted signals, after every fit the
\* running offset total equals the initial previous offset given for that axis plus
\* the sum of the offsets recorded so far in delta_offsets for that axis and signal.
C29_RunningTotalIsInitialPlusDeltas ==
    \A d \in DirectionSet : \A f \in FieldSet :
        prev_offsets[d][f] =
            NpAdd(InitialOffsets(b_args)[d][f], SumOfOffsets(delta_offsets[d][f]))

\* C29 witness: two el sweeps from an initial el offset of 1, the second with a failed
\* on_pol2 fit: on_pol1 stands at 1 + 2 + 2 and on_pol2 at 1 + 2 + 0.
C29_Witness ==
    /\ b_args.el_previous_offsets = 1
    /\ delta_offsets["el"]["on_pol1"] = <<Flt(2), Flt(2)>>
    /\ delta_offsets["el"]["on_pol2"] = <<Flt(2), Flt(0)>>
    /\ prev_offsets["el"]["on_pol1"] = Flt(5)
    /\ prev_offsets["el"]["on_pol2"] = Flt(3)

C31_SweepShiftedByAppliedCorrection ==
    bpc \in {"grab_check", "grab_measure"} =>
        dir_points = DirPoints(b_points.points_scaled,
                        IF i_iter = 0
                        THEN InitialOffsets(b_args)[Directions[direction]][FinalOffsetField]
                        ELSE boresight_offset[Directions[direction]])

\* C32: while the running flag is found True, grab_pm_data has commanded the
\* offsets of the locations in their order, each before the integration made at
\* that location, and a completed sweep returns one integration per location in
\* the order of the locations
C32_OneIntegrationPerLocationInOrder ==
    /\ bpc \in {"grab_check", "grab_measure"} =>
          /\ integrated_at = SubSeq(dir_points, 1, item - 1)
          /\ integrated_data = item - 1
    /\ (bpc = "grabbed" /\ ~avg_tsys.none) =>
          /\ avg_tsys.rows = Len(dir_points)
          /\ integrated_at = dir_points
          /\ apc_offset[Directions[direction]] = dir_points[Len(dir_points)]
C32_Witness ==
    /\ bpc = "grabbed" /\ ~avg_tsys.none /\ ~read_false
    /\ i_iter = 1
    /\ Len(integrated_at) = b_args.n_points
    /\ integrated_at[1] # b_points.points_scaled[1]

(* -------------------- properties of point_onsource ---------------------- *)

\* C33: point_onsource calls its terminal callback only after the pointing
\* controller answered ONSOURCE; the pointing running flag is True from the start
\* of the procedure until the terminal callback has been delivered, and False once
\* the procedure has returned, which follows every delivery
C33_CallbackAfterOnsourceFlagAround ==
    /\ [](point_cb # <<>> => onsource = "ONSOURCE")
    /\ [](ppc \notin {"idle", "returned"} => pointing_running)
    /\ [](ppc = "returned" => ~pointing_running /\ Len(point_cb) = 1)
    /\ (point_cb # <<>>) ~> [](~pointing_running)
C33_Witness ==
    /\ ppc = "returned" /\ ~pointing_running
    /\ point_polls = 2 /\ point_updates = 3
    /\ Len(point_cb) = 1

(* ------------------- properties of the FITS conversion ------------------ *)

\* C34: for a centre frequency above 22 GHz the reassignment leaves channels 2
\* and 4 equal to the original channel 3 and channels 1 and 3 equal to the
\* original channel 2, as the log message says
C34_AboveBranchAsLogged ==
    (fits_pc = "rearranged" /\ CenterFreq(center_freq_arg) > thresh) =>
        /\ tsys_row[2] = tsys_read[3] /\ tsys_row[4] = tsys_read[3]
        /\ tsys_row[1] = tsys_read[2] /\ tsys_row[3] = tsys_read[2]
C34_Witness ==
    /\ fits_pc = "rearranged" /\ center_freq_arg = 23
    /\ tsys_read = <<0, 1, 2, 0>>
    /\ tsys_row = <<1, 2, 1, 2>>

(* --------------- properties of spectrometer_callback -------------------- *)

\* C36: under every interleaving of spectrometer_callback with stop_nodding, no
\* write of write_data meets a data file that has been closed
C36_NoWriteToClosedFile == closed_writes = 0

(* ----------------- properties of the generated client ------------------- *)

\* C37: every call of a generated synchronous client method returns the result
\* its own terminal callback delivered, never the result of an earlier call
C37_ReturnsOwnResult ==
    \A k \in 1..Len(returned) : returned[k].data = returned[k].call

(* ------------------- properties of perform_minical ---------------------- *)

\* C39: when perform_minical fails (the hardware call raises, the result is
\* malformed or a reading is zero) or runs in simulated mode, the four tsys factors
\* in memory and the persisted minical record are left as they were, so that a
\* later retrieve_previous_minical_results restores the last successful calibration
C39_FailedMinicalChangesNothing ==
    (pm_pc # "idle" /\ (pm_args.simulated \/ pm_args.hw.kind # "ok")) =>
        /\ file_after = file_before
        /\ pm_pc = "performed" => tsysfactors = factors_before
        /\ pm_pc = "retrieved" =>
              tsysfactors = retrieve_previous_minical_results(
                                file_before, factors_before).tsysfactors

(* --------------------- properties of minical ---------------------------- *)

\* C40: the minical running flag is True as long as a minical procedure executes,
\* in the serving thread or in its LongRunningWorker, and is False only when every
\* procedure started has produced its terminal result
C40_FlagCoversProcedure ==
    /\ (mc_pc \in {"entered", "deliver"} \/ mc_worker \in {"run", "cb"}) => minical_running
    /\ ~minical_running => Len(mc_delivered) = mc_calls

=============================================================================
